---- MODULE Spec2Model ----
(***************************************************************************)
(* Inventory and orders backend (src/venv/crud.py over src/models.py and   *)
(* src/database.py).  The committed database is three tables: produtos,    *)
(* pedidos and itens_pedido.  Every crud handler runs in one SQLAlchemy    *)
(* session (autocommit=False, autoflush=False) and ends in commit or       *)
(* rollback.                                                               *)
(*                                                                         *)
(* Prices and totals are Float columns in the source; the model uses small *)
(* integers, on which float multiplication and addition are exact.         *)
(* Strings are sequences of one-character strings so that strip() and      *)
(* title() are computed rather than assumed.                               *)
(***************************************************************************)
EXTENDS FiniteSets, Integers, Sequences, TLC

\* ---------------------------------------------------------------- bounds
MaxProdutoId == 2
MaxPedidoId == 2
MaxEstoque == 2
MaxQtd == 2
MaxItens == 2
MaxPreco == 2
MaxOps == 4
MaxConc == 2
MaxVivo == 2

None == "None"

\* ------------------------------------------------------------- utilities
MaxDe(S) == CHOOSE x \in S : \A y \in S : y <= x

MinDe(S) == CHOOSE x \in S : \A y \in S : x <= y

\* INTEGER PRIMARY KEY of SQLite: the next rowid is the largest one + 1.
ProximoId(ids) == IF ids = {} THEN 1 ELSE MaxDe(ids) + 1

\* ------------------------------------------------- str.strip / str.title
Maiuscula(c) == CASE c = "a" -> "A" [] c = "b" -> "B" [] c = "n" -> "N" [] OTHER -> c
Minuscula(c) == CASE c = "A" -> "a" [] c = "B" -> "b" [] c = "N" -> "n" [] OTHER -> c
EhLetra(c) == c \in {"a", "b", "n", "A", "B", "N"}

RECURSIVE lstrip(_)
lstrip(s) == IF s # <<>> /\ Head(s) = " " THEN lstrip(Tail(s)) ELSE s

RECURSIVE rstrip(_)
rstrip(s) == IF s # <<>> /\ s[Len(s)] = " " THEN rstrip(SubSeq(s, 1, Len(s) - 1)) ELSE s

strip(s) == rstrip(lstrip(s))

title(s) == [i \in 1..Len(s) |->
               IF i = 1 \/ ~EhLetra(s[i - 1]) THEN Maiuscula(s[i]) ELSE Minuscula(s[i])]

\* nome.strip().title()  (crud.py:28, 36, 111, 243, 389)
normalizar(s) == title(strip(s))

\* ------------------------------------------------------------ responses
\* HTTPException(status_code, detail); a normal return is status 200.
Resposta(status, detail) == [status |-> status, detail |-> detail]

RespOK == Resposta(200, "OK")

\* Result of a whole handler: the committed database it leaves, its
\* response, and the id of the row it created or addressed.
Resultado(db, resp, id) == [db |-> db, resp |-> resp, id |-> id]

\* Mutant: the error path keeps the pending work.
rollback_nada(db, trabalho) == trabalho

\* Mutant: the rollback restores the stock and keeps the other rows.
rollback_parcial(db, trabalho) == [trabalho EXCEPT !.produtos = db.produtos]

\* db.rollback(): the session's pending work is discarded (crud.py:49, 134,
\* 180, 279, 417, 461).
rollback(db, trabalho) == db

\* db.commit(): the session's pending work becomes the committed state.
commit(db, trabalho) == trabalho

\* ------------------------------------------------------ session objects
\* A handler works on the objects its session has loaded.  `lidos' holds
\* each loaded Produto as it was read, `prods' the same objects with the
\* handler's pending attribute changes (autoflush=False: nothing reaches
\* the database before flush/commit).  `pedido_lido' holds the cliente and
\* valor_total of the loaded Pedido as they were read, `dados' the product
\* a product handler was given or is about to insert, `k' the number of
\* old items the reversal loop has done, and `confirmou' tells whether the
\* handler's db.commit() has returned.
NovoProduto(nome, descricao, preco, estoque) ==
    [nome |-> nome, descricao |-> descricao, preco |-> preco,
     quantidade_estoque |-> estoque]

SemPedido == [cliente |-> <<>>, valor_total |-> 0]

SemDados == NovoProduto(<<>>, None, 0, 0)

Sessao(op, pc, pedido_id, cliente, itens_req) ==
    [op |-> op, pc |-> pc, pedido_id |-> pedido_id, produto_id |-> 0,
     cliente |-> cliente, itens_req |-> itens_req, pedido_lido |-> SemPedido,
     dados |-> SemDados,
     lidos |-> <<>>, prods |-> <<>>, antigos |-> <<>>, k |-> 0,
     valor_total |-> 0, itens_pedido |-> <<>>, novos |-> <<>>, confirmou |-> FALSE,
     resp |-> RespOK]

SessaoLivre == Sessao("nenhuma", "fim", 0, <<>>, <<>>)

Falhou(s, status, detail) == [s EXCEPT !.pc = "fim", !.resp = Resposta(status, detail)]

\* ------------------------------------------------------ request schemas
\* The request models of schemas.py, which FastAPI applies to the body
\* before it calls the endpoint function (main.py:81, 111-115, 131, 164-168):
\* a body that breaks a field constraint is answered 422 and the handler is
\* not called.  `detail' names the failing fields, in the order of the
\* model's fields; `valor' is the validated model.
Juntar(detail, erro) ==
    IF erro = "" THEN detail ELSE IF detail = "" THEN erro ELSE detail \o "; " \o erro

Validado(detail, valor) == [ok |-> detail = "", detail |-> detail, valor |-> valor]

\* return v.strip().title()   (schemas.py:13-15)
validar_nome(v) == title(strip(v))

\* if v: return v.strip(); return v   (schemas.py:17-21)
validar_descricao(v) == IF v = None THEN None ELSE IF v = <<>> THEN v ELSE strip(v)

\* return v.strip().title()   (schemas.py:56-58)
validar_cliente(v) == title(strip(v))

\* Field(..., min_length=1, max_length=...)   (schemas.py:8, 53)
ErroDeTexto(campo, v, max_length) ==
    IF Len(v) < 1 THEN campo \o ": string_too_short"
    ELSE IF Len(v) > max_length THEN campo \o ": string_too_long"
    ELSE ""

\* class ProdutoBase (schemas.py:7-21); ProdutoCreate and ProdutoUpdate add
\* nothing to it (schemas.py:23-27).
ProdutoBase(corpo) ==
    LET e_nome == ErroDeTexto("nome", corpo.nome, 100)
        e_descricao == IF corpo.descricao # None /\ Len(corpo.descricao) > 500
                       THEN "descricao: string_too_long" ELSE ""
        e_preco == IF corpo.preco > 0 THEN "" ELSE "preco: greater_than"
        e_estoque == IF corpo.quantidade_estoque >= 0 THEN ""
                     ELSE "quantidade_estoque: greater_than_equal"
        detail == Juntar(Juntar(Juntar(e_nome, e_descricao), e_preco), e_estoque)
    IN  Validado(detail,
                 IF detail # "" THEN corpo
                 ELSE NovoProduto(validar_nome(corpo.nome),
                                  validar_descricao(corpo.descricao),
                                  corpo.preco, corpo.quantidade_estoque))

\* class ItemPedidoCreate (schemas.py:37-39), for the item at index k - 1
\* of the list.
ItemPedidoCreate(item, k) ==
    LET loc == "itens." \o ToString(k - 1)
        e_produto == IF item.produto_id > 0 THEN ""
                     ELSE loc \o ".produto_id: greater_than"
        e_quantidade == IF item.quantidade > 0 THEN ""
                        ELSE loc \o ".quantidade: greater_than"
    IN  Juntar(e_produto, e_quantidade)

RECURSIVE ErrosDosItens(_, _)
ErrosDosItens(itens_req, k) ==
    IF k > Len(itens_req) THEN ""
    ELSE Juntar(ItemPedidoCreate(itens_req[k], k), ErrosDosItens(itens_req, k + 1))

\* Mutant: the validator accepts every list.
validar_itens_unicos_nunca(v) == TRUE

\* validar_itens_unicos (schemas.py:60-65): TRUE when the list is accepted.
validar_itens_unicos(v) ==
    ~(Len(v) # Cardinality({v[k].produto_id : k \in 1..Len(v)}))

\* class PedidoBase (schemas.py:52-65); PedidoCreate and PedidoUpdate add
\* nothing to it (schemas.py:67-71).  The validator of itens runs only on a
\* list whose items and length passed.
PedidoBase(corpo) ==
    LET e_cliente == ErroDeTexto("cliente", corpo.cliente, 100)
        e_linhas == ErrosDosItens(corpo.itens, 1)
        e_itens == IF e_linhas # "" THEN e_linhas
                   ELSE IF Len(corpo.itens) < 1 THEN "itens: too_short"
                   ELSE IF ~validar_itens_unicos(corpo.itens) THEN "itens: value_error"
                   ELSE ""
        detail == Juntar(e_cliente, e_itens)
    IN  Validado(detail,
                 IF detail # "" THEN corpo
                 ELSE [cliente |-> validar_cliente(corpo.cliente),
                       itens |-> corpo.itens])

\* The response FastAPI gives for a body its model refuses.
Recusa(v) == Resposta(422, v.detail)

\* ----------------------------------------------------- response schemas
\* class Produto(ProdutoBase) (schemas.py:29-33), the response_model of the
\* product endpoints (main.py:80, 110, 188): the row an endpoint returns is
\* put through the fields of ProdutoBase again.  A stored name can break
\* min_length=1: the request model tests the length of the name as sent
\* and strips it afterwards (schemas.py:8, 13-15), so a name of blanks is
\* accepted and stored as the empty string.
Produto(linha) == ProdutoBase(linha)

\* async def general_exception_handler (main.py:53-59): what the caller
\* gets when the framework raises outside the handler, as it does for a
\* returned row the response model refuses.
general_exception_handler == Resposta(500, "Erro interno do servidor")

\* ------------------------------------------------------------- PRODUTOS
\* db.query(Produto).filter(Produto.nome == nome [, Produto.id != exceto]).first()
\* (crud.py:27-29, 113-116); the UNIQUE index on produtos.nome (models.py:11)
\* compares the same way when a row is inserted or renamed.
NomeEmUso(prods, nome, exceto) ==
    \E i \in DOMAIN prods : i # exceto /\ prods[i].nome = nome

\* if produto_data.get('descricao'): descricao = descricao.strip()
\* (crud.py:37-38): None and the empty string are falsy and stay as sent.
LimparDescricaoNova(d) ==
    IF d = None THEN None ELSE IF d = <<>> THEN <<>> ELSE strip(d)

\* dados.descricao.strip() if dados.descricao else None   (crud.py:123):
\* None and the empty string both give None.
LimparDescricao(d) ==
    IF d = None THEN None ELSE IF d = <<>> THEN None ELSE strip(d)

\* ---- criar_produto (crud.py:13-64) in its phases
\* crud.py:19-38: the checks of price and stock, the SELECT of a product
\* with the name, the row to insert
crp_abrir(db, produto) ==
    LET s == [Sessao("criar_produto", "verificado", 0, <<>>, <<>>)
                EXCEPT !.dados = produto] IN
    IF produto.preco <= 0
    THEN Falhou(s, 400, "Preco deve ser maior que zero")
    ELSE IF produto.quantidade_estoque < 0
    THEN Falhou(s, 400, "Quantidade em estoque nao pode ser negativa")
    ELSE IF NomeEmUso(db.produtos, normalizar(produto.nome), 0)
    THEN Falhou(s, 400, "Produto com este nome ja existe")
    ELSE [s EXCEPT !.dados = NovoProduto(normalizar(produto.nome),
                                         LimparDescricaoNova(produto.descricao),
                                         produto.preco, produto.quantidade_estoque)]

\* db.add(db_produto); db.commit() (crud.py:41-42), the INSERT of the
\* flush, run on db: it gives the row its id, or breaks the UNIQUE index on
\* nome, an IntegrityError that the handler answers with 400
\* (crud.py:51-56).
crp_inserir(db, s) ==
    IF NomeEmUso(db.produtos, s.dados.nome, 0)
    THEN Falhou(s, 400, "Produto com este nome ja existe")
    ELSE [s EXCEPT !.produto_id = ProximoId(DOMAIN db.produtos), !.pc = "inserido"]

\* The row the INSERT adds.
crp_gravar(db, s) == [db EXCEPT !.produtos = (s.produto_id :> s.dados) @@ db.produtos]

criar_produto(db, produto) ==
    LET s1 == crp_abrir(db, produto) IN
    IF s1.pc = "fim" THEN Resultado(rollback(db, db), s1.resp, 0)
    ELSE LET s2 == crp_inserir(db, s1) IN
         IF s2.pc = "fim" THEN Resultado(rollback(db, db), s2.resp, 0)
         ELSE Resultado(commit(db, crp_gravar(db, s2)), RespOK, s2.produto_id)

\* Mutant: the new name and price are also written to the stored items
\* that reference the product.
AplicarCampos_propaga(db, produto_id, produto) ==
    [db EXCEPT !.produtos[produto_id] = produto,
               !.itens = [k \in 1..Len(db.itens) |->
                            IF db.itens[k].produto_id = produto_id
                            THEN [db.itens[k] EXCEPT !.nome_produto = produto.nome,
                                                     !.preco_unitario = produto.preco]
                            ELSE db.itens[k]]]

\* Mutant: the stock written is the supplied value less the units that a
\* stored item holds of the product.
AplicarCampos_liquido(db, produto_id, produto) ==
    LET Dele(e) == e.produto_id = produto_id
        doProduto == SelectSeq(db.itens, Dele)
        retidas == IF doProduto = <<>> THEN 0 ELSE doProduto[1].quantidade
    IN  [db EXCEPT !.produtos[produto_id] =
            [produto EXCEPT !.quantidade_estoque = @ - retidas]]

\* produto.nome = ...; produto.descricao = ...; produto.preco = ...;
\* produto.quantidade_estoque = ...  (crud.py:122-125): the assignments
\* touch the loaded Produto row and nothing else.
AplicarCampos(db, produto_id, produto) ==
    [db EXCEPT !.produtos[produto_id] = produto]

\* ---- atualizar_produto (crud.py:94-149) in its phases
\* crud.py:122-125: the assignments to the loaded Produto
upr_atribuir(s) ==
    [s EXCEPT !.prods = (s.produto_id :>
                           NovoProduto(normalizar(s.dados.nome),
                                       LimparDescricao(s.dados.descricao),
                                       s.dados.preco, s.dados.quantidade_estoque)),
              !.dados = SemDados,
              !.pc = "verificado"]

\* crud.py:98-112: the SELECT of the product, the checks of price and
\* stock; with the product's own name no further query is made
\* (crud.py:112) and the assignments follow.
upr_abrir(db, produto_id, dados) ==
    LET s == [Sessao("atualizar_produto", "lido", 0, <<>>, <<>>)
                EXCEPT !.produto_id = produto_id, !.dados = dados] IN
    IF produto_id \notin DOMAIN db.produtos
    THEN Falhou(s, 404, "Produto nao encontrado")
    ELSE IF dados.preco <= 0
    THEN Falhou(s, 400, "Preco deve ser maior que zero")
    ELSE IF dados.quantidade_estoque < 0
    THEN Falhou(s, 400, "Quantidade em estoque nao pode ser negativa")
    ELSE LET s1 == [s EXCEPT !.lidos = (produto_id :> db.produtos[produto_id])] IN
         IF normalizar(dados.nome) # db.produtos[produto_id].nome
         THEN s1
         ELSE upr_atribuir(s1)

\* crud.py:113-125: the SELECT of another product with the new name, then
\* the assignments
upr_verificar(db, s) ==
    IF NomeEmUso(db.produtos, normalizar(s.dados.nome), s.produto_id)
    THEN Falhou(s, 400, "Produto com este nome ja existe")
    ELSE upr_atribuir(s)

\* The attributes of the loaded Produto whose new value differs from the
\* loaded one: the flush emits UPDATE produtos SET <these> WHERE id = ?,
\* and no UPDATE when there is none.
CamposSujos(s) ==
    {c \in {"nome", "descricao", "preco", "quantidade_estoque"} :
        s.prods[s.produto_id][c] # s.lidos[s.produto_id][c]}

\* db.commit() (crud.py:127), the UPDATE of the flush, run on db: it matches
\* no row when the product is gone (StaleDataError, answered 500 at
\* crud.py:141-144), or breaks the UNIQUE index on nome (IntegrityError,
\* answered 400 at crud.py:136-140).
upr_update(db, s) ==
    IF s.produto_id \notin DOMAIN db.produtos
    THEN Falhou(s, 500, "Erro interno do servidor")
    ELSE IF "nome" \in CamposSujos(s)
            /\ NomeEmUso(db.produtos, s.prods[s.produto_id].nome, s.produto_id)
    THEN Falhou(s, 400, "Produto com este nome ja existe")
    ELSE [s EXCEPT !.pc = "atualizado"]

\* The row of db after the UPDATE: the changed attributes take the
\* session's values, the others stay as db has them.
LinhaAtualizada(db, s) ==
    [c \in {"nome", "descricao", "preco", "quantidade_estoque"} |->
        IF c \in CamposSujos(s) THEN s.prods[s.produto_id][c]
        ELSE db.produtos[s.produto_id][c]]

upr_gravar(db, s) == AplicarCampos(db, s.produto_id, LinhaAtualizada(db, s))

atualizar_produto(db, produto_id, dados) ==
    LET s1 == upr_abrir(db, produto_id, dados) IN
    IF s1.pc = "fim" THEN Resultado(rollback(db, db), s1.resp, produto_id)
    ELSE LET s2 == IF s1.pc = "lido" THEN upr_verificar(db, s1) ELSE s1 IN
         IF s2.pc = "fim" THEN Resultado(rollback(db, db), s2.resp, produto_id)
         ELSE IF CamposSujos(s2) = {} THEN Resultado(commit(db, db), RespOK, produto_id)
         ELSE LET s3 == upr_update(db, s2) IN
              IF s3.pc = "fim" THEN Resultado(rollback(db, db), s3.resp, produto_id)
              ELSE Resultado(commit(db, upr_gravar(db, s3)), RespOK, produto_id)

\* Mutant: the in-use check never finds an item.
ProdutoEmPedidos_nunca(itensTab, produto_id) == FALSE

\* db.query(ItemPedido).filter(ItemPedido.produto_id == produto_id).first()
\* (crud.py:162-164)
ProdutoEmPedidos(itensTab, produto_id) ==
    \E k \in 1..Len(itensTab) : itensTab[k].produto_id = produto_id

\* Mutant: the row is not deleted.
SemChave_nada(f, k) == f

\* db.delete(row): the table without the row of key k (crud.py:173, 454).
SemChave(f, k) == [i \in DOMAIN f \ {k} |-> f[i]]

\* crud.py:152-189
deletar_produto(db, produto_id) ==
    IF produto_id \notin DOMAIN db.produtos
    THEN Resultado(rollback(db, db), Resposta(404, "Produto nao encontrado"), produto_id)
    ELSE IF ProdutoEmPedidos(db.itens, produto_id)
    THEN Resultado(rollback(db, db),
                   Resposta(400, "Nao e possivel excluir produto que esta em pedidos"),
                   produto_id)
    ELSE LET trabalho == [db EXCEPT !.produtos = SemChave(db.produtos, produto_id)]
         IN  Resultado(commit(db, trabalho), RespOK, produto_id)

\* --------------------------------------------------------------- PEDIDOS
\* len(produto_ids) != len(set(produto_ids))   (crud.py:203-204, 332-333)
TemDuplicados(itens_req) ==
    Len(itens_req) # Cardinality({itens_req[k].produto_id : k \in 1..Len(itens_req)})

\* Mutants: the stock check off by one; the stock check missing.
EstoqueSuficiente_frouxo(produto, quantidade) ==
    ~(produto.quantidade_estoque + 1 < quantidade)

EstoqueSuficiente_sempre(produto, quantidade) == TRUE

\* produto.quantidade_estoque < item.quantidade is the rejection
\* (crud.py:226, 372)
EstoqueSuficiente(produto, quantidade) == ~(produto.quantidade_estoque < quantidade)

\* Mutant: the line total ignores the quantity.
TotalItem_sem_qtd(quantidade, preco) == preco

\* total_item = item.quantidade * produto.preco   (crud.py:233, 379)
TotalItem(quantidade, preco) == quantidade * preco

\* Mutant: every line lowers the stock by one unit.
Baixar_um(estoque, quantidade) == estoque - 1

\* produto.quantidade_estoque -= item.quantidade   (crud.py:258, 398)
Baixar(estoque, quantidade) == estoque - quantidade

\* Mutant: the old quantity is not added back.
Repor_nada(estoque, quantidade) == estoque

\* produto.quantidade_estoque += quantidade   (crud.py:347, 446)
Repor(estoque, quantidade) == estoque + quantidade

\* Mutant: every query reads the committed row again, losing the
\* session's pending change to it.
Carregar_fresco(s, db, id) ==
    [s EXCEPT !.lidos = (id :> db.produtos[id]) @@ s.lidos,
              !.prods = (id :> db.produtos[id]) @@ s.prods]

\* db.query(Produto).filter(Produto.id == id).first() inside a session: no
\* row gives None; a row already loaded is the session's own object.
Carregar(s, db, id) == IF id \in DOMAIN s.prods THEN s ELSE
    [s EXCEPT !.lidos = (id :> db.produtos[id]) @@ s.lidos,
              !.prods = (id :> db.produtos[id]) @@ s.prods]

\* One turn of the validation loop (crud.py:212-240, 358-386), on line k:
\* the quantity check, the SELECT of the product, the stock check.
validar_linha(s, db, k) ==
    LET item == s.itens_req[k] IN
    IF item.quantidade <= 0
    THEN Falhou(s, 400, "Quantidade deve ser maior que zero")
    ELSE IF item.produto_id \notin DOMAIN db.produtos
    THEN Falhou(s, 404, "Produto nao encontrado")
    ELSE LET s1 == Carregar(s, db, item.produto_id)
             produto == s1.prods[item.produto_id]
         IN  IF ~EstoqueSuficiente(produto, item.quantidade)
             THEN Falhou(s1, 400, "Estoque insuficiente")
             ELSE LET total_item == TotalItem(item.quantidade, produto.preco)
                  IN  [s1 EXCEPT !.valor_total = @ + total_item,
                                 !.itens_pedido = Append(@,
                                     [produto_id |-> item.produto_id,
                                      quantidade |-> item.quantidade,
                                      total_item |-> total_item])]

\* Mutant: a line that names a missing product is reported before an
\* earlier line's insufficient stock.
RECURSIVE validar_itens_ausente_antes(_, _, _)
validar_itens_ausente_antes(s, db, k) ==
    IF k > Len(s.itens_req) THEN s
    ELSE IF \E j \in k..Len(s.itens_req) :
              s.itens_req[j].produto_id \notin DOMAIN db.produtos
    THEN Falhou(s, 404, "Produto nao encontrado")
    ELSE LET s1 == validar_linha(s, db, k) IN
         IF s1.pc = "fim" THEN s1 ELSE validar_itens_ausente_antes(s1, db, k + 1)

\* The validation loop over the request lines (crud.py:212-240, 358-386),
\* line k onwards, every SELECT answered by the same database.
RECURSIVE validar_itens(_, _, _)
validar_itens(s, db, k) ==
    IF k > Len(s.itens_req) THEN s
    ELSE LET s1 == validar_linha(s, db, k) IN
         IF s1.pc = "fim" THEN s1 ELSE validar_itens(s1, db, k + 1)

\* The loop that lowers the stock and builds the ItemPedido rows
\* (crud.py:252-270, 393-408), entry k onwards.
RECURSIVE aplicar_itens(_, _)
aplicar_itens(s, k) ==
    IF k > Len(s.itens_pedido) THEN s
    ELSE LET info == s.itens_pedido[k]
             produto == s.prods[info.produto_id]
             item_pedido == [pedido_id |-> s.pedido_id,
                             produto_id |-> info.produto_id,
                             nome_produto |-> produto.nome,
                             quantidade |-> info.quantidade,
                             preco_unitario |-> produto.preco,
                             valor_total_item |-> info.total_item]
         IN  aplicar_itens(
               [s EXCEPT !.prods[info.produto_id].quantidade_estoque =
                             Baixar(@, info.quantidade),
                         !.novos = Append(@, item_pedido)],
               k + 1)

\* The rows of tab in the order of the index on (pedido_id, produto_id)
\* (models.py:63) for one pedido_id: by produto_id, then by rowid.
RECURSIVE PorProduto(_, _)
PorProduto(tab, ids) ==
    IF ids = {} THEN <<>>
    ELSE LET p == MinDe(ids)
             DoProduto(e) == e.produto_id = p
         IN  SelectSeq(tab, DoProduto) \o PorProduto(tab, ids \ {p})

\* pedido.itens: SELECT ... FROM itens_pedido WHERE pedido_id = ? with no
\* ORDER BY (models.py:36).  SQLite answers it by a search of the index
\* idx_item_pedido_produto, so the rows come in that index's order.
ItensDoPedido(itensTab, pedido_id) ==
    LET Dele(e) == e.pedido_id = pedido_id
        dele == SelectSeq(itensTab, Dele)
    IN  PorProduto(dele, {dele[k].produto_id : k \in 1..Len(dele)})

\* The orders in which the rows of one pedido_id can come back from a
\* SELECT without ORDER BY: by rowid (a scan of the table) or in the order
\* of the index on (pedido_id, produto_id) (models.py:63), which is the
\* plan SQLite takes when the index exists.
LeiturasDeItens(itensTab, pedido_id) ==
    LET Dele(e) == e.pedido_id = pedido_id
    IN  {SelectSeq(itensTab, Dele), ItensDoPedido(itensTab, pedido_id)}

\* Mutant: the bulk DELETE removes no row.
ItensDeOutros_todos(itensTab, pedido_id) == itensTab

\* What db.query(ItemPedido).filter(ItemPedido.pedido_id == pedido_id)
\* .delete() leaves in the table (crud.py:350-352, 449-451).
ItensDeOutros(itensTab, pedido_id) ==
    LET Outro(e) == e.pedido_id # pedido_id IN SelectSeq(itensTab, Outro)

\* Products whose quantidade_estoque the session changed: the flush emits
\* UPDATE produtos SET quantidade_estoque = <value> WHERE id = <id> for them.
Sujos(s) == {i \in DOMAIN s.prods :
               s.prods[i].quantidade_estoque # s.lidos[i].quantidade_estoque}

\* pedido.cliente = ...; pedido.valor_total = ...  (crud.py:389-390): the
\* flush emits UPDATE pedidos only for the attributes whose new value
\* differs from the loaded one, and no UPDATE when none differs.
PedidoSujo(s) ==
    /\ s.op = "atualizar_pedido"
    /\ \/ s.cliente # s.pedido_lido.cliente
       \/ s.valor_total # s.pedido_lido.valor_total

\* An UPDATE that matches no row raises StaleDataError (a SQLAlchemyError).
Obsoleto(db, s) ==
    \/ \E i \in Sujos(s) : i \notin DOMAIN db.produtos
    \/ PedidoSujo(s) /\ s.pedido_id \notin DOMAIN db.pedidos

\* The rows the session's flush writes, applied to the database as it is
\* when the flush runs.
Gravar(db, s) ==
    [produtos |-> [i \in DOMAIN db.produtos |->
                     IF i \in Sujos(s)
                     THEN [db.produtos[i] EXCEPT !.quantidade_estoque =
                                                    s.prods[i].quantidade_estoque]
                     ELSE db.produtos[i]],
     pedidos |-> IF s.op = "deletar_pedido"
                 THEN SemChave(db.pedidos, s.pedido_id)
                 ELSE IF s.pc # "aplicado"
                 THEN db.pedidos
                 ELSE IF s.op = "criar_pedido"
                 THEN (s.pedido_id :> [cliente |-> s.cliente,
                                       valor_total |-> s.valor_total]) @@ db.pedidos
                 ELSE IF s.pedido_id \in DOMAIN db.pedidos
                 THEN [db.pedidos EXCEPT ![s.pedido_id] =
                         [cliente |-> IF s.cliente # s.pedido_lido.cliente
                                      THEN s.cliente ELSE @.cliente,
                          valor_total |-> IF s.valor_total # s.pedido_lido.valor_total
                                          THEN s.valor_total ELSE @.valor_total]]
                 ELSE db.pedidos,
     itens |-> (IF s.op = "criar_pedido" THEN db.itens
                ELSE ItensDeOutros(db.itens, s.pedido_id)) \o s.novos]

\* ---- criar_pedido (crud.py:194-288) in its phases
\* crud.py:199-205: the checks of the list as a whole, before any query
cp_abrir(pedido) ==
    LET s == Sessao("criar_pedido", "validando", 0, pedido.cliente, pedido.itens) IN
    IF pedido.itens = <<>>
    THEN Falhou(s, 400, "Pedido deve conter pelo menos um item")
    ELSE IF TemDuplicados(pedido.itens)
    THEN Falhou(s, 400, "Nao e possivel ter produtos duplicados no mesmo pedido")
    ELSE s

\* crud.py:212-240, one turn of the loop: the next line, with its SELECT
\* answered by db
cp_linha(db, s) ==
    LET k == Len(s.itens_pedido) + 1
        v == validar_linha(s, db, k)
    IN  IF v.pc = "fim" THEN v
        ELSE [v EXCEPT !.pc = IF k = Len(s.itens_req) THEN "validado" ELSE "validando"]

\* crud.py:199-240: the checks, every product read from the same database
cp_validar(db, pedido) ==
    LET s == cp_abrir(pedido) IN
    IF s.pc = "fim" THEN s
    ELSE LET v == validar_itens(s, db, 1) IN
         IF v.pc = "fim" THEN v ELSE [v EXCEPT !.pc = "validado"]

\* crud.py:243-249: db.add(db_pedido); db.flush() gives the order its id
cp_flush(db, s) ==
    [s EXCEPT !.pc = "flushed", !.cliente = normalizar(s.cliente),
              !.pedido_id = ProximoId(DOMAIN db.pedidos)]

\* crud.py:252-270
cp_aplicar(s) == [aplicar_itens(s, 1) EXCEPT !.pc = "aplicado"]

\* Mutant: on a failing line the lines validated so far are applied and
\* committed.
criar_pedido_parcial(db, pedido) ==
    LET s1 == cp_validar(db, pedido) IN
    IF s1.pc = "fim"
    THEN IF s1.itens_pedido = <<>> THEN Resultado(db, s1.resp, 0)
         ELSE Resultado(Gravar(db, cp_aplicar(cp_flush(db, s1))), s1.resp, 0)
    ELSE LET s2 == cp_flush(db, s1)
             s3 == cp_aplicar(s2)
         IN  Resultado(commit(db, Gravar(db, s3)), RespOK, s2.pedido_id)

criar_pedido(db, pedido) ==
    LET s1 == cp_validar(db, pedido) IN
    IF s1.pc = "fim" THEN Resultado(rollback(db, db), s1.resp, 0)
    ELSE LET s2 == cp_flush(db, s1)
             s3 == cp_aplicar(s2)
         IN  Resultado(commit(db, Gravar(db, s3)), RespOK, s2.pedido_id)

\* Mutant: the reversal loop adds nothing back.
reverter_item_pula(s, db, k) == s

\* One turn of the loops that add the old items' quantities back
\* (crud.py:338-347, 441-446), on old item k: the SELECT of its product
\* and the +=; an item whose product is gone is skipped.
reverter_item(s, db, k) ==
    LET item == s.antigos[k] IN
    IF item.produto_id \notin DOMAIN db.produtos
    THEN s
    ELSE LET s1 == Carregar(s, db, item.produto_id)
         IN  [s1 EXCEPT !.prods[item.produto_id].quantidade_estoque =
                           Repor(@, item.quantidade)]

\* The whole loop, item k onwards, every SELECT answered by the same
\* database.
RECURSIVE reverter(_, _, _)
reverter(s, db, k) ==
    IF k > Len(s.antigos) THEN s
    ELSE reverter(reverter_item(s, db, k), db, k + 1)

\* for item in pedido.itens (crud.py:338, 441): the SELECT of the order's
\* items, answered by db.
ler_itens(db, s) ==
    LET antigos == ItensDoPedido(db.itens, s.pedido_id) IN
    [s EXCEPT !.antigos = antigos,
              !.pc = IF antigos = <<>> THEN "revertido" ELSE "revertendo"]

\* The next turn of the reversal loop, with its SELECT answered by db.
reverter_passo(db, s) ==
    LET s1 == reverter_item(s, db, s.k + 1)
        fim == s.k + 1 = Len(s.antigos)
    IN  [s1 EXCEPT !.k = IF fim THEN 0 ELSE s.k + 1,
                   !.pc = IF fim THEN "revertido" ELSE "revertendo"]

\* Mutant: the products of the new lines are looked up before the order.
ap_abrir_produtos_antes(db, pedido_id, dados) ==
    LET s == Sessao("atualizar_pedido", "lido", pedido_id, dados.cliente,
                    dados.itens) IN
    IF \E k \in 1..Len(dados.itens) : dados.itens[k].produto_id \notin DOMAIN db.produtos
    THEN Falhou(s, 404, "Produto nao encontrado")
    ELSE IF pedido_id \notin DOMAIN db.pedidos
    THEN Falhou(s, 404, "Pedido nao encontrado")
    ELSE [s EXCEPT !.pedido_lido = db.pedidos[pedido_id]]

\* ---- atualizar_pedido (crud.py:318-426) in its phases
\* crud.py:323-334: the SELECT of the order, then the checks of the list
ap_abrir(db, pedido_id, dados) ==
    LET s == Sessao("atualizar_pedido", "lido", pedido_id, dados.cliente,
                    dados.itens) IN
    IF pedido_id \notin DOMAIN db.pedidos
    THEN Falhou(s, 404, "Pedido nao encontrado")
    ELSE IF dados.itens = <<>>
    THEN Falhou(s, 400, "Pedido deve conter pelo menos um item")
    ELSE IF TemDuplicados(dados.itens)
    THEN Falhou(s, 400, "Nao e possivel ter produtos duplicados no mesmo pedido")
    ELSE [s EXCEPT !.pedido_lido = db.pedidos[pedido_id]]

\* crud.py:323-347: find the order, check the list, reverse the old items,
\* every SELECT answered by the same database
ap_ler(db, pedido_id, dados) ==
    LET s == ap_abrir(db, pedido_id, dados) IN
    IF s.pc = "fim" THEN s
    ELSE [reverter(ler_itens(db, s), db, 1) EXCEPT !.pc = "revertido"]

\* crud.py:350-352: the bulk DELETE of the old items, pending in the
\* session's transaction
ap_remover(s) == [s EXCEPT !.pc = "removido"]

\* crud.py:355-386
ap_validar(db, s) ==
    LET v == validar_itens(s, db, 1) IN
    IF v.pc = "fim" THEN v ELSE [v EXCEPT !.pc = "validado"]

\* Mutant: the order keeps the customer name it had.
ap_aplicar_cliente_antigo(s) ==
    [aplicar_itens([s EXCEPT !.cliente = s.pedido_lido.cliente], 1) EXCEPT !.pc = "aplicado"]

\* crud.py:389-408
ap_aplicar(s) ==
    [aplicar_itens([s EXCEPT !.cliente = normalizar(s.cliente)], 1) EXCEPT !.pc = "aplicado"]

atualizar_pedido(db, pedido_id, dados) ==
    LET s1 == ap_ler(db, pedido_id, dados) IN
    IF s1.pc = "fim" THEN Resultado(rollback(db, db), s1.resp, pedido_id)
    ELSE LET s2 == ap_remover(s1)
             s3 == ap_validar(db, s2)
         IN  IF s3.pc = "fim"
             THEN Resultado(rollback(db, Gravar(db, s3)), s3.resp, pedido_id)
             ELSE Resultado(commit(db, Gravar(db, ap_aplicar(s3))), RespOK, pedido_id)

\* ---- deletar_pedido (crud.py:429-470) in its phases
\* crud.py:434-436: the SELECT of the order
dp_abrir(db, pedido_id) ==
    LET s == Sessao("deletar_pedido", "lido", pedido_id, <<>>, <<>>) IN
    IF pedido_id \notin DOMAIN db.pedidos
    THEN Falhou(s, 404, "Pedido nao encontrado")
    ELSE s

\* crud.py:434-446, every SELECT answered by the same database
dp_ler(db, pedido_id) ==
    LET s == dp_abrir(db, pedido_id) IN
    IF s.pc = "fim" THEN s
    ELSE [reverter(ler_itens(db, s), db, 1) EXCEPT !.pc = "revertido"]

\* crud.py:449-451
dp_remover(s) == [s EXCEPT !.pc = "removido"]

deletar_pedido(db, pedido_id) ==
    LET s1 == dp_ler(db, pedido_id) IN
    IF s1.pc = "fim" THEN Resultado(rollback(db, db), s1.resp, pedido_id)
    ELSE Resultado(commit(db, Gravar(db, dp_remover(s1))), RespOK, pedido_id)

\* ---- deletar_produto (crud.py:152-189) in its phases
\* crud.py:157-159: the SELECT of the product
dpr_abrir(db, produto_id) ==
    LET s == [Sessao("deletar_produto", "lido", 0, <<>>, <<>>)
                EXCEPT !.produto_id = produto_id] IN
    IF produto_id \notin DOMAIN db.produtos
    THEN Falhou(s, 404, "Produto nao encontrado")
    ELSE s

\* crud.py:162-170: the SELECT of an item that references the product
dpr_verificar(db, s) ==
    IF ProdutoEmPedidos(db.itens, s.produto_id)
    THEN Falhou(s, 400, "Nao e possivel excluir produto que esta em pedidos")
    ELSE [s EXCEPT !.pc = "verificado"]

\* produto.itens_pedido (models.py:19), loaded when db.delete(produto) is
\* flushed: the relationship has no delete cascade, so the unit of work
\* reads the items that reference the product in order to set their
\* produto_id to NULL.
ItensDoProduto(itensTab, produto_id) ==
    LET Dele(e) == e.produto_id = produto_id IN SelectSeq(itensTab, Dele)

\* db.delete(produto); db.commit() (crud.py:173-174), the first statement
\* of the flush: the SELECT of produto.itens_pedido, answered by db.
dpr_carregar(db, s) ==
    [s EXCEPT !.antigos = ItensDoProduto(db.itens, s.produto_id), !.pc = "carregado"]

\* The DELETE of the product row, applied to the database as it is when
\* it runs (a DELETE that matches no row only warns).
dpr_gravar(db, s) ==
    IF s.produto_id \in DOMAIN db.produtos
    THEN [db EXCEPT !.produtos = SemChave(db.produtos, s.produto_id)]
    ELSE db

\* ---- endpoints
\* The endpoint functions of main.py as a client reaches them: the body is
\* put through its request model, and the crud handler is called with the
\* validated model.  A refused body is answered 422 by the framework, with
\* no session work done.
\* return crud.criar_produto(...) / crud.atualizar_produto(...) under
\* response_model=schemas.Produto (main.py:80, 90, 110, 119): the handler
\* has committed and refreshed the row r.id when it returns it; a row the
\* response model refuses turns the answer into a 500 and leaves the
\* commit in place.
responder_produto(r) ==
    IF r.resp.status # 200 \/ Produto(r.db.produtos[r.id]).ok THEN r
    ELSE [r EXCEPT !.resp = general_exception_handler]

\* POST /produtos (main.py:80-90)
main_criar_produto(db, produto) ==
    LET v == ProdutoBase(produto) IN
    IF ~v.ok THEN Resultado(db, Recusa(v), 0)
    ELSE responder_produto(criar_produto(db, v.valor))

\* PUT /produtos/{produto_id} (main.py:110-119)
main_atualizar_produto(db, produto_id, dados) ==
    LET v == ProdutoBase(dados) IN
    IF ~v.ok THEN Resultado(db, Recusa(v), produto_id)
    ELSE responder_produto(atualizar_produto(db, produto_id, v.valor))

\* POST /pedidos (main.py:130-143)
main_criar_pedido(db, pedido) ==
    LET v == PedidoBase(pedido) IN
    IF ~v.ok THEN Resultado(db, Recusa(v), 0) ELSE criar_pedido(db, v.valor)

\* PUT /pedidos/{pedido_id} (main.py:163-177)
main_atualizar_pedido(db, pedido_id, dados) ==
    LET v == PedidoBase(dados) IN
    IF ~v.ok THEN Resultado(db, Recusa(v), pedido_id)
    ELSE atualizar_pedido(db, pedido_id, v.valor)

\* ---- reads
\* What a read handler returns: its response and the value it carries.
Leitura(resp, valor) == [resp |-> resp, valor |-> valor]

\* buscar_pedido (crud.py:302-315) as the caller sees it: the order row and
\* its itens, read through the relationship when the response is built
\* (main.py:156-161).  The set holds one response per row order the read
\* of the items can give.
buscar_pedido(db, pedido_id) ==
    IF pedido_id \notin DOMAIN db.pedidos
    THEN {Leitura(Resposta(404, "Pedido nao encontrado"), None)}
    ELSE {Leitura(RespOK, [id |-> pedido_id,
                           cliente |-> db.pedidos[pedido_id].cliente,
                           valor_total |-> db.pedidos[pedido_id].valor_total,
                           itens |-> lidos_]) :
            lidos_ \in LeiturasDeItens(db.itens, pedido_id)}

\* sum(pedido.valor_total for pedido in ...) over the rows of a table
\* (main.py:207)
RECURSIVE sum(_)
sum(tabela) ==
    IF DOMAIN tabela = {} THEN 0
    ELSE LET k == MinDe(DOMAIN tabela)
         IN  tabela[k].valor_total + sum(SemChave(tabela, k))

\* a / b of Python on numbers: the exact quotient, kept as the pair.
Dividir(a, b) == [num |-> a, den |-> b]

\* GET /estatisticas (main.py:198-214): the dict the endpoint returns.
estatisticas(db) ==
    LET total_produtos == Cardinality(DOMAIN db.produtos)
        total_pedidos == Cardinality(DOMAIN db.pedidos)
        valor_total == sum(db.pedidos)
    IN  Leitura(RespOK,
                [total_produtos |-> total_produtos,
                 total_pedidos |-> total_pedidos,
                 valor_total_pedidos |-> valor_total,
                 ticket_medio |-> IF total_pedidos > 0
                                  THEN Dividir(valor_total, total_pedidos) ELSE 0])

\* Produto.quantidade_estoque <= limite   (main.py:194, crud.py:491)
AbaixoDoLimite(estoque, limite) == estoque <= limite

\* The rows of produtos with the given ids, by rowid.
RECURSIVE LinhasDeProdutos(_, _)
LinhasDeProdutos(prods, ids) ==
    IF ids = {} THEN <<>>
    ELSE LET i == MinDe(ids)
         IN  <<[id |-> i, nome |-> prods[i].nome, descricao |-> prods[i].descricao,
                preco |-> prods[i].preco,
                quantidade_estoque |-> prods[i].quantidade_estoque]>>
             \o LinhasDeProdutos(prods, ids \ {i})

\* GET /produtos/baixo-estoque/{limite} (main.py:188-196; the same query
\* as crud.py:485-495): a SELECT and no write, so the database it leaves
\* is the one it found.  The rows go through response_model=
\* List[schemas.Produto] (main.py:188): when one of them is refused the
\* caller gets the 500 of the general handler and no list.
produtos_baixo_estoque(db, limite) ==
    LET linhas == LinhasDeProdutos(db.produtos,
                     {i \in DOMAIN db.produtos :
                        AbaixoDoLimite(db.produtos[i].quantidade_estoque, limite)})
    IN  IF \A k \in 1..Len(linhas) : Produto(linhas[k]).ok
        THEN [db |-> db, resp |-> RespOK, valor |-> linhas]
        ELSE [db |-> db, resp |-> general_exception_handler, valor |-> <<>>]

\* ================================================================ state
VARIABLES
    produtos,    \* table produtos: id -> row
    pedidos,     \* table pedidos: id -> row
    itens,       \* table itens_pedido: the rows in primary-key order
    ultimo,      \* the handler call that finished last and its response
    criado_com,  \* history: the stock each live product was created with
    ajuste,      \* history: net stock change committed by atualizar_produto
    nops,        \* number of handler calls made so far
    sess,        \* per session: the handler in progress and its objects
    trava        \* the session holding SQLite's write lock, 0 if none

vars == <<produtos, pedidos, itens, ultimo, criado_com, ajuste, nops, sess, trava>>

DB == [produtos |-> produtos, pedidos |-> pedidos, itens |-> itens]

Sessoes == {1, 2}

\* ----------------------------------------------------- inputs of the calls
\* The bodies a client can send: the request models refuse some of them
\* (a price of 0, a stock of -1, a quantity of 0, an empty list, a product
\* named twice).  The name of one blank passes the request model and is
\* stored as the empty string.
NomesEntrada == {<<" ", "a">>, <<"A">>, <<" ">>}
Descricoes == {<<"n", " ">>}
Precos == 0..MaxPreco
Estoques == (-1)..MaxEstoque
Clientes == {<<"a", " ">>, <<"b">>}
ProdutoIds == 1..MaxProdutoId
PedidoIds == 1..MaxPedidoId
Linhas == [produto_id : ProdutoIds, quantidade : 0..MaxQtd]
ListasDeItens == UNION {[1..n -> Linhas] : n \in 0..MaxItens}

Limites == (-1)..(MaxEstoque + 1)

\* The requests of the phase-by-phase specifications: one customer; the
\* lists with quantities > 0 that name the products in ascending order,
\* and the empty list; a product body with a free name, one with the first
\* product's name that changes its price and stock, one with a price of 0,
\* and one whose name is a blank.
ClientesPasso == {<<"a", " ">>}
ListasPasso ==
    {l \in UNION {[1..n -> Linhas] : n \in 0..MaxItens} :
        \A k \in 1..Len(l) : /\ l[k].quantidade > 0
                             /\ \A j \in 1..(k - 1) : l[j].produto_id < l[k].produto_id}
CorposPasso ==
    {NovoProduto(<<"n">>, None, 1, 1), NovoProduto(<<"a">>, None, MaxPreco, 0),
     NovoProduto(<<"n">>, None, 0, 1), NovoProduto(<<" ">>, None, 1, 1)}

Chamada(op, r) == [op |-> op, status |-> r.resp.status, detail |-> r.resp.detail,
                   id |-> r.id]

Init ==
    /\ produtos = <<>>
    /\ pedidos = <<>>
    /\ itens = <<>>
    /\ ultimo = [op |-> "nenhuma", status |-> 200, detail |-> "OK", id |-> 0]
    /\ criado_com = <<>>
    /\ ajuste = <<>>
    /\ nops = 0
    /\ sess = [s \in Sessoes |-> SessaoLivre]
    /\ trava = 0

\* The handler's result becomes the committed state.
Efetivar(op, r) ==
    /\ produtos' = r.db.produtos
    /\ pedidos' = r.db.pedidos
    /\ itens' = r.db.itens
    /\ ultimo' = Chamada(op, r)
    /\ nops' = nops + 1

\* ------------------------------------------- whole handlers, one at a time
CriarProduto ==
    /\ nops < MaxOps
    /\ ProximoId(DOMAIN produtos) <= MaxProdutoId
    /\ \E nome \in NomesEntrada, d \in Descricoes, preco \in Precos, est \in Estoques :
         LET r == main_criar_produto(DB, NovoProduto(nome, d, preco, est)) IN
         /\ Efetivar("criar_produto", r)
         /\ IF r.id \in DOMAIN r.db.produtos
            THEN /\ criado_com' = (r.id :> est) @@ criado_com
                 /\ ajuste' = (r.id :> 0) @@ ajuste
            ELSE UNCHANGED <<criado_com, ajuste>>
    /\ UNCHANGED <<sess, trava>>

AtualizarProduto ==
    /\ nops < MaxOps
    /\ \E id \in ProdutoIds, nome \in NomesEntrada, d \in Descricoes,
          preco \in Precos, est \in Estoques :
         LET r == main_atualizar_produto(DB, id, NovoProduto(nome, d, preco, est)) IN
         /\ Efetivar("atualizar_produto", r)
         /\ IF id \in DOMAIN produtos
            THEN ajuste' = [ajuste EXCEPT ![id] =
                               @ + (r.db.produtos[id].quantidade_estoque
                                      - produtos[id].quantidade_estoque)]
            ELSE UNCHANGED ajuste
    /\ UNCHANGED <<criado_com, sess, trava>>

DeletarProduto ==
    /\ nops < MaxOps
    /\ \E id \in ProdutoIds :
         LET r == deletar_produto(DB, id) IN
         /\ Efetivar("deletar_produto", r)
         /\ IF r.resp.status = 200
            THEN /\ criado_com' = SemChave(criado_com, id)
                 /\ ajuste' = SemChave(ajuste, id)
            ELSE UNCHANGED <<criado_com, ajuste>>
    /\ UNCHANGED <<sess, trava>>

CriarPedido ==
    /\ nops < MaxOps
    /\ ProximoId(DOMAIN pedidos) <= MaxPedidoId
    /\ \E c \in Clientes, l \in ListasDeItens :
         Efetivar("criar_pedido", main_criar_pedido(DB, [cliente |-> c, itens |-> l]))
    /\ UNCHANGED <<criado_com, ajuste, sess, trava>>

AtualizarPedido ==
    /\ nops < MaxOps
    /\ \E id \in PedidoIds, c \in Clientes, l \in ListasDeItens :
         Efetivar("atualizar_pedido",
                  main_atualizar_pedido(DB, id, [cliente |-> c, itens |-> l]))
    /\ UNCHANGED <<criado_com, ajuste, sess, trava>>

DeletarPedido ==
    /\ nops < MaxOps
    /\ \E id \in PedidoIds : Efetivar("deletar_pedido", deletar_pedido(DB, id))
    /\ UNCHANGED <<criado_com, ajuste, sess, trava>>

Next ==
    \/ CriarProduto
    \/ AtualizarProduto
    \/ DeletarProduto
    \/ CriarPedido
    \/ AtualizarPedido
    \/ DeletarPedido

Spec == Init /\ [][Next]_vars

\* ============================================ handlers phase by phase
\* Each request runs in its own session (main.py:38-43).  A session reads
\* the committed rows; its first INSERT/DELETE takes SQLite's write lock,
\* which it holds until commit or rollback; pending writes are invisible
\* to the other session.
Livre(p) == sess[p].pc = "fim"

EmCurso(op) == Cardinality({q \in Sessoes : sess[q].op = op /\ sess[q].pc # "fim"})

FimDe(s) == [op |-> s.op, status |-> s.resp.status, detail |-> s.resp.detail,
             id |-> IF s.op \in {"criar_produto", "atualizar_produto", "deletar_produto"}
                    THEN s.produto_id ELSE s.pedido_id]

\* A finished handler's session is closed (main.py:42-43): its objects are
\* gone; what remains is the call and its response.
Encerrar(s) ==
    IF s.pc # "fim" THEN s
    ELSE [SessaoLivre EXCEPT !.op = s.op, !.pedido_id = s.pedido_id,
                             !.produto_id = s.produto_id,
                             !.confirmou = s.confirmou, !.resp = s.resp]

\* The session of a request whose body the request model refused: the
\* endpoint function was not called.
Recusada(op, pedido_id, produto_id, v) ==
    [Sessao(op, "fim", pedido_id, <<>>, <<>>)
       EXCEPT !.produto_id = produto_id, !.resp = Recusa(v)]

\* The phase that opens a handler: s is the session after the phase.
Abrir(p, s) ==
    /\ sess' = [sess EXCEPT ![p] = Encerrar(s)]
    /\ nops' = nops + 1
    /\ ultimo' = IF s.pc = "fim" THEN FimDe(s) ELSE ultimo
    /\ UNCHANGED <<produtos, pedidos, itens, criado_com, ajuste, trava>>

\* except SQLAlchemyError: db.rollback(); raise HTTPException(500)
\* (crud.py:57-60, 142-145, 281-284, 419-422, 463-466)
ErroDeBanco(s) == Falhou(s, 500, "Erro interno do servidor")

\* A phase that ends the handler with an error: rollback, lock released.
Abortar(p, s) ==
    /\ sess' = [sess EXCEPT ![p] = Encerrar(s)]
    /\ ultimo' = FimDe(s)
    /\ trava' = IF trava = p THEN 0 ELSE trava
    /\ UNCHANGED <<produtos, pedidos, itens, criado_com, ajuste, nops>>

\* The session after db.commit() has returned: the transaction is over
\* and every loaded object is expired.  The create and update handlers go
\* on to db.refresh (crud.py:43, 128, 273, 411); the delete handlers
\* return their message (crud.py:177, 458).
Confirmada(s) ==
    [SessaoLivre EXCEPT !.op = s.op, !.pedido_id = s.pedido_id,
                        !.produto_id = s.produto_id, !.confirmou = TRUE,
                        !.pc = IF s.op \in {"criar_produto", "atualizar_produto",
                                            "criar_pedido", "atualizar_pedido"}
                               THEN "confirmado" ELSE "fim"]

\* The flush and COMMIT of a handler (crud.py:272, 410, 455).
Confirmar(p, s) ==
    IF Obsoleto(DB, s)
    THEN Abortar(p, ErroDeBanco(s))
    ELSE \E r \in {commit(DB, Gravar(DB, s))}, f \in {Confirmada(s)} :
             /\ produtos' = r.produtos
             /\ pedidos' = r.pedidos
             /\ itens' = r.itens
             /\ sess' = [sess EXCEPT ![p] = f]
             /\ ultimo' = IF f.pc = "fim" THEN FimDe(f) ELSE ultimo
             /\ trava' = 0
             /\ UNCHANGED <<criado_com, ajuste, nops>>

\* db.refresh(row) after the commit (crud.py:43, 128, 273, 411): a SELECT
\* of the row by its id, outside any transaction.  When the row is no
\* longer there, refresh raises InvalidRequestError, a SQLAlchemyError:
\* the handler rolls back, which undoes nothing of the committed
\* transaction, and answers 500 (crud.py:57-60, 142-145, 281-284, 419-422).
\* The refreshed row is what the handler returns: a product row goes
\* through response_model=schemas.Produto (main.py:80, 110), and one it
\* refuses is answered by the general handler.
Refresh(p) ==
    /\ sess[p].pc = "confirmado"
    /\ \E f \in {IF sess[p].op \in {"criar_produto", "atualizar_produto"}
                  THEN IF sess[p].produto_id \notin DOMAIN produtos
                       THEN ErroDeBanco(sess[p])
                       ELSE [sess[p] EXCEPT
                               !.pc = "fim",
                               !.resp = IF Produto(produtos[sess[p].produto_id]).ok
                                        THEN RespOK ELSE general_exception_handler]
                  ELSE IF sess[p].pedido_id \in DOMAIN pedidos
                       THEN [sess[p] EXCEPT !.pc = "fim", !.resp = RespOK]
                       ELSE ErroDeBanco(sess[p])} :
         /\ sess' = [sess EXCEPT ![p] = Encerrar(f)]
         /\ ultimo' = FimDe(f)
    /\ UNCHANGED <<produtos, pedidos, itens, criado_com, ajuste, nops, trava>>

\* The first write of a transaction while the other session holds the
\* lock: sqlite3 waits, and raises OperationalError if the wait times out.
Bloqueado(p) ==
    /\ ~Livre(p)
    /\ trava \notin {0, p}
    /\ \/ sess[p].op = "criar_pedido" /\ sess[p].pc = "validado"
       \/ sess[p].op \in {"atualizar_pedido", "deletar_pedido"} /\ sess[p].pc = "revertido"
       \/ sess[p].op = "deletar_produto" /\ sess[p].pc = "carregado"
       \/ sess[p].op = "criar_produto" /\ sess[p].pc = "verificado"
       \/ /\ sess[p].op = "atualizar_produto" /\ sess[p].pc = "verificado"
          /\ CamposSujos(sess[p]) # {}
    /\ Abortar(p, ErroDeBanco(sess[p]))

\* A step of a handler that reads: s is the session after the step.
Seguir(p, s) ==
    IF s.pc = "fim"
    THEN Abortar(p, s)
    ELSE /\ sess' = [sess EXCEPT ![p] = s]
         /\ UNCHANGED <<produtos, pedidos, itens, ultimo, criado_com, ajuste, nops, trava>>

\* POST /produtos arrives: the request model, then the checks and the
\* SELECT of a product with the name.
CrpLer(p) ==
    /\ Livre(p)
    /\ nops < MaxOps
    /\ \E corpo \in CorposPasso :
         \E v \in {ProdutoBase(corpo)} :
           Abrir(p, IF ~v.ok THEN Recusada("criar_produto", 0, 0, v)
                    ELSE crp_abrir(DB, v.valor))

\* db.commit() flushes the new row (crud.py:41-42): the INSERT takes the
\* write lock.
CrpInsert(p) ==
    /\ sess[p].op = "criar_produto" /\ sess[p].pc = "verificado"
    /\ trava = 0
    /\ \E s \in {crp_inserir(DB, sess[p])} :
         IF s.pc = "fim"
         THEN Abortar(p, s)
         ELSE /\ trava' = p
              /\ sess' = [sess EXCEPT ![p] = s]
              /\ UNCHANGED <<produtos, pedidos, itens, ultimo, criado_com, ajuste, nops>>

\* The COMMIT of the insert releases the lock.
CrpCommit(p) ==
    /\ sess[p].op = "criar_produto" /\ sess[p].pc = "inserido"
    /\ \E r \in {commit(DB, crp_gravar(DB, sess[p]))}, f \in {Confirmada(sess[p])} :
         /\ produtos' = r.produtos
         /\ pedidos' = r.pedidos
         /\ itens' = r.itens
         /\ sess' = [sess EXCEPT ![p] = f]
         /\ trava' = 0
         /\ criado_com' = (f.produto_id :> sess[p].dados.quantidade_estoque) @@ criado_com
         /\ ajuste' = (f.produto_id :> 0) @@ ajuste
         /\ UNCHANGED <<ultimo, nops>>

\* PUT /produtos/{id} arrives: the request model, then the SELECT of the
\* product and the checks.
UprLer(p) ==
    /\ Livre(p)
    /\ nops < MaxOps
    /\ \E id \in ProdutoIds, corpo \in CorposPasso :
         \E v \in {ProdutoBase(corpo)} :
           Abrir(p, IF ~v.ok THEN Recusada("atualizar_produto", 0, id, v)
                    ELSE upr_abrir(DB, id, v.valor))

\* The SELECT of another product with the new name (crud.py:113-116).
UprVerificar(p) ==
    /\ sess[p].op = "atualizar_produto" /\ sess[p].pc = "lido"
    /\ \E s \in {upr_verificar(DB, sess[p])} : Seguir(p, s)

\* db.commit() flushes the changed attributes (crud.py:127): the UPDATE
\* takes the write lock.  With no attribute changed there is no statement
\* and the commit ends an empty transaction.
UprUpdate(p) ==
    /\ sess[p].op = "atualizar_produto" /\ sess[p].pc = "verificado"
    /\ IF CamposSujos(sess[p]) = {}
       THEN /\ sess' = [sess EXCEPT ![p] = Confirmada(sess[p])]
            /\ UNCHANGED <<produtos, pedidos, itens, ultimo, criado_com, ajuste, nops,
                           trava>>
       ELSE /\ trava = 0
            /\ \E s \in {upr_update(DB, sess[p])} :
                 IF s.pc = "fim"
                 THEN Abortar(p, s)
                 ELSE /\ trava' = p
                      /\ sess' = [sess EXCEPT ![p] = s]
                      /\ UNCHANGED <<produtos, pedidos, itens, ultimo, criado_com, ajuste,
                                     nops>>

\* The COMMIT of the update releases the lock.
UprCommit(p) ==
    /\ sess[p].op = "atualizar_produto" /\ sess[p].pc = "atualizado"
    /\ \E r \in {commit(DB, upr_gravar(DB, sess[p]))}, f \in {Confirmada(sess[p])} :
         /\ produtos' = r.produtos
         /\ pedidos' = r.pedidos
         /\ itens' = r.itens
         /\ sess' = [sess EXCEPT ![p] = f]
         /\ trava' = 0
         /\ ajuste' = [ajuste EXCEPT ![f.produto_id] =
                          @ + (r.produtos[f.produto_id].quantidade_estoque
                                 - produtos[f.produto_id].quantidade_estoque)]
         /\ UNCHANGED <<ultimo, criado_com, nops>>

\* POST /pedidos arrives: the request model, then the checks of the list
\* and the first turn of the validation loop.
CpValidar(p) ==
    /\ Livre(p)
    /\ nops < MaxOps
    /\ ProximoId(DOMAIN pedidos) + EmCurso("criar_pedido") <= MaxPedidoId
    /\ \E c \in ClientesPasso, l \in ListasPasso :
         \E v \in {PedidoBase([cliente |-> c, itens |-> l])} :
           IF ~v.ok THEN Abrir(p, Recusada("criar_pedido", 0, 0, v))
           ELSE \E s \in {cp_abrir(v.valor)} :
                  Abrir(p, IF s.pc = "fim" THEN s ELSE cp_linha(DB, s))

\* A further turn of the validation loop.
CpLinha(p) ==
    /\ sess[p].op = "criar_pedido" /\ sess[p].pc = "validando"
    /\ \E v \in {cp_linha(DB, sess[p])} : Seguir(p, v)

CpFlush(p) ==
    /\ sess[p].op = "criar_pedido" /\ sess[p].pc = "validado"
    /\ trava = 0
    /\ trava' = p
    /\ sess' = [sess EXCEPT ![p] = cp_flush(DB, sess[p])]
    /\ UNCHANGED <<produtos, pedidos, itens, ultimo, criado_com, ajuste, nops>>

CpCommit(p) ==
    /\ sess[p].op = "criar_pedido" /\ sess[p].pc = "flushed"
    /\ \E s \in {cp_aplicar(sess[p])} : Confirmar(p, s)

\* The persistence layer fails inside criar_pedido: db.flush() raises
\* (crud.py:249), or db.commit() raises after the order row was flushed
\* and the stocks were lowered in the session (crud.py:272).  The handler
\* rolls back and answers 500 (crud.py:281-284).
CpFalha(p) ==
    /\ sess[p].op = "criar_pedido"
    /\ \/ sess[p].pc = "validado" /\ trava = 0
       \/ sess[p].pc = "flushed"
    /\ LET s == IF sess[p].pc = "flushed" THEN cp_aplicar(sess[p])
                ELSE cp_flush(DB, sess[p])
           pendente == IF sess[p].pc = "flushed" THEN Gravar(DB, s) ELSE DB
           r == rollback(DB, pendente)
           f == ErroDeBanco(s)
       IN  /\ produtos' = r.produtos
           /\ pedidos' = r.pedidos
           /\ itens' = r.itens
           /\ sess' = [sess EXCEPT ![p] = Encerrar(f)]
           /\ ultimo' = FimDe(f)
           /\ trava' = IF trava = p THEN 0 ELSE trava
           /\ UNCHANGED <<criado_com, ajuste, nops>>

ApLer(p) ==
    /\ Livre(p)
    /\ nops < MaxOps
    /\ \E id \in PedidoIds, c \in ClientesPasso, l \in ListasPasso :
         \E v \in {PedidoBase([cliente |-> c, itens |-> l])} :
           Abrir(p, IF ~v.ok THEN Recusada("atualizar_pedido", id, 0, v)
                    ELSE ap_abrir(DB, id, v.valor))

\* for item in pedido.itens: the lazy load of the order's items
\* (crud.py:338, 441).
LerItens(p) ==
    /\ sess[p].op \in {"atualizar_pedido", "deletar_pedido"} /\ sess[p].pc = "lido"
    /\ \E s \in {ler_itens(DB, sess[p])} : Seguir(p, s)

\* A turn of the reversal loop (crud.py:339-347, 442-446).
ReverterItem(p) ==
    /\ sess[p].op \in {"atualizar_pedido", "deletar_pedido"}
    /\ sess[p].pc = "revertendo"
    /\ \E s \in {reverter_passo(DB, sess[p])} : Seguir(p, s)

ApRemover(p) ==
    /\ sess[p].op = "atualizar_pedido" /\ sess[p].pc = "revertido"
    /\ trava = 0
    /\ trava' = p
    /\ sess' = [sess EXCEPT ![p] = ap_remover(sess[p])]
    /\ UNCHANGED <<produtos, pedidos, itens, ultimo, criado_com, ajuste, nops>>

ApValidar(p) ==
    /\ sess[p].op = "atualizar_pedido" /\ sess[p].pc = "removido"
    /\ \E v \in {ap_validar(DB, sess[p])} :
       IF v.pc = "fim"
       THEN Abortar(p, v)
       ELSE /\ sess' = [sess EXCEPT ![p] = v]
            /\ UNCHANGED <<produtos, pedidos, itens, ultimo, criado_com, ajuste, nops,
                           trava>>

ApCommit(p) ==
    /\ sess[p].op = "atualizar_pedido" /\ sess[p].pc = "validado"
    /\ \E s \in {ap_aplicar(sess[p])} : Confirmar(p, s)

DpLer(p) ==
    /\ Livre(p)
    /\ nops < MaxOps
    /\ \E id \in PedidoIds : Abrir(p, dp_abrir(DB, id))

DpRemover(p) ==
    /\ sess[p].op = "deletar_pedido" /\ sess[p].pc = "revertido"
    /\ trava = 0
    /\ trava' = p
    /\ sess' = [sess EXCEPT ![p] = dp_remover(sess[p])]
    /\ UNCHANGED <<produtos, pedidos, itens, ultimo, criado_com, ajuste, nops>>

DpCommit(p) ==
    /\ sess[p].op = "deletar_pedido" /\ sess[p].pc = "removido"
    /\ Confirmar(p, sess[p])

DprLer(p) ==
    /\ Livre(p)
    /\ nops < MaxOps
    /\ \E id \in ProdutoIds : Abrir(p, dpr_abrir(DB, id))

DprVerificar(p) ==
    /\ sess[p].op = "deletar_produto" /\ sess[p].pc = "lido"
    /\ \E s \in {dpr_verificar(DB, sess[p])} : Seguir(p, s)

\* db.commit() flushes the delete (crud.py:173-174): first the SELECT of
\* produto.itens_pedido, which takes no lock.
DprCarregar(p) ==
    /\ sess[p].op = "deletar_produto" /\ sess[p].pc = "verificado"
    /\ \E s \in {dpr_carregar(DB, sess[p])} : Seguir(p, s)

\* Then the writes of the flush.  With an item to detach, UPDATE
\* itens_pedido SET produto_id = NULL breaks NOT NULL (models.py:47):
\* IntegrityError, caught at crud.py:181-184.  Otherwise DELETE FROM
\* produtos takes the write lock.
DprDelete(p) ==
    /\ sess[p].op = "deletar_produto" /\ sess[p].pc = "carregado"
    /\ trava = 0
    /\ IF sess[p].antigos # <<>>
       THEN Abortar(p, ErroDeBanco(sess[p]))
       ELSE /\ trava' = p
            /\ sess' = [sess EXCEPT ![p].pc = "removido"]
            /\ UNCHANGED <<produtos, pedidos, itens, ultimo, criado_com, ajuste, nops>>

\* The COMMIT of the delete releases the lock.
DprCommit(p) ==
    /\ sess[p].op = "deletar_produto" /\ sess[p].pc = "removido"
    /\ \E r \in {commit(DB, dpr_gravar(DB, sess[p]))}, f \in {Confirmada(sess[p])} :
         /\ produtos' = r.produtos
         /\ pedidos' = r.pedidos
         /\ itens' = r.itens
         /\ sess' = [sess EXCEPT ![p] = Encerrar(f)]
         /\ ultimo' = FimDe(f)
         /\ trava' = 0
         /\ criado_com' = [i \in DOMAIN r.produtos |-> criado_com[i]]
         /\ ajuste' = [i \in DOMAIN r.produtos |-> ajuste[i]]
         /\ UNCHANGED nops

Passo(p) ==
    \/ CrpLer(p)
    \/ CrpInsert(p)
    \/ CrpCommit(p)
    \/ UprLer(p)
    \/ UprVerificar(p)
    \/ UprUpdate(p)
    \/ UprCommit(p)
    \/ CpValidar(p)
    \/ CpLinha(p)
    \/ CpFlush(p)
    \/ CpCommit(p)
    \/ CpFalha(p)
    \/ ApLer(p)
    \/ LerItens(p)
    \/ ReverterItem(p)
    \/ ApRemover(p)
    \/ ApValidar(p)
    \/ ApCommit(p)
    \/ DpLer(p)
    \/ DpRemover(p)
    \/ DpCommit(p)
    \/ DprLer(p)
    \/ DprVerificar(p)
    \/ DprCarregar(p)
    \/ DprDelete(p)
    \/ DprCommit(p)
    \/ Refresh(p)

\* A catalogue of two products with stocks e1 and e2, as two POST /produtos
\* calls leave it.
Catalogo(e1, e2) ==
    LET r1 == main_criar_produto([produtos |-> <<>>, pedidos |-> <<>>, itens |-> <<>>],
                                 NovoProduto(<<"a">>, None, 1, e1))
        r2 == main_criar_produto(r1.db, NovoProduto(<<"b">>, None, MaxPreco, e2))
    IN  /\ produtos = r2.db.produtos
        /\ pedidos = <<>>
        /\ itens = <<>>
        /\ ultimo = Chamada("criar_produto", r2)
        /\ criado_com = (1 :> e1) @@ (2 :> e2)
        /\ ajuste = (1 :> 0) @@ (2 :> 0)
        /\ nops = 0
        /\ sess = [s \in Sessoes |-> SessaoLivre]
        /\ trava = 0

InitCatalogo == \E e1 \in 0..MaxEstoque : Catalogo(e1, MaxEstoque)

\* The catalogue of the interleaved runs: one unit of the first product.
InitConc == Catalogo(1, MaxEstoque)

\* One session at a time, phase by phase.
NextPassos == Passo(1)

SpecPassos == InitCatalogo /\ [][NextPassos]_vars

\* Two sessions interleaved.
NextConc == \E p \in Sessoes : (Passo(p) /\ nops' <= MaxConc) \/ Bloqueado(p)

SpecConc == InitConc /\ [][NextConc]_vars

\* The phases that carry a started handler on.  A handler is straight-line
\* code with loops over finite lists, run to its end by the worker that
\* serves the request; a write that finds the database locked waits for
\* the sqlite3 busy timeout and then raises.
Continuar(p) ==
    \/ CrpInsert(p)
    \/ CrpCommit(p)
    \/ UprVerificar(p)
    \/ UprUpdate(p)
    \/ UprCommit(p)
    \/ CpLinha(p)
    \/ LerItens(p)
    \/ ReverterItem(p)
    \/ DprVerificar(p)
    \/ DprCarregar(p)
    \/ DprDelete(p)
    \/ CpFlush(p)
    \/ CpCommit(p)
    \/ ApRemover(p)
    \/ ApValidar(p)
    \/ ApCommit(p)
    \/ DpRemover(p)
    \/ DpCommit(p)
    \/ DprCommit(p)
    \/ Refresh(p)
    \/ Bloqueado(p)

\* The catalogue of two products with one order stored, as two
\* criar_produto calls and a criar_pedido of one unit a line leave it.
InitComPedido ==
    \E e1 \in {MaxEstoque}, e2 \in {MaxEstoque}, c \in ClientesPasso,
       l \in {x \in ListasPasso : \A k \in 1..Len(x) : x[k].quantidade = 1} :
      LET r1 == main_criar_produto([produtos |-> <<>>, pedidos |-> <<>>, itens |-> <<>>],
                                   NovoProduto(<<"a">>, None, 1, e1))
          r2 == main_criar_produto(r1.db, NovoProduto(<<"b">>, None, MaxPreco, e2))
          r3 == main_criar_pedido(r2.db, [cliente |-> c, itens |-> l])
      IN  /\ r3.resp.status = 200
          /\ produtos = r3.db.produtos
          /\ pedidos = r3.db.pedidos
          /\ itens = r3.db.itens
          /\ ultimo = Chamada("criar_pedido", r3)
          /\ criado_com = (1 :> e1) @@ (2 :> e2)
          /\ ajuste = (1 :> 0) @@ (2 :> 0)
          /\ nops = 0
          /\ sess = [s \in Sessoes |-> SessaoLivre]
          /\ trava = 0

NextVivo == \E p \in Sessoes : (Passo(p) /\ nops' <= MaxVivo) \/ Bloqueado(p)

\* Two sessions interleaved, every started handler being carried on.
SpecVivo == /\ InitComPedido
            /\ [][NextVivo]_vars
            /\ \A p \in Sessoes : WF_vars(Continuar(p))

\* ============================================================ properties
\* Sums and tests used by the properties, written on the tables alone.
RECURSIVE SomaIdx(_, _)
SomaIdx(f, S) ==
    IF S = {} THEN 0
    ELSE LET k == CHOOSE x \in S : TRUE IN f[k] + SomaIdx(f, S \ {k})

\* Units of product p held by the rows of an itens_pedido table.
Retido(tab, p) ==
    SomaIdx([k \in 1..Len(tab) |-> tab[k].quantidade],
            {k \in 1..Len(tab) : tab[k].produto_id = p})

\* Units of product p held by the items of order id.
RetidoPor(tab, id, p) ==
    SomaIdx([k \in 1..Len(tab) |-> tab[k].quantidade],
            {k \in 1..Len(tab) : tab[k].produto_id = p /\ tab[k].pedido_id = id})

\* Units of product p a request list asks for.
Pedido_(l, p) ==
    SomaIdx([k \in 1..Len(l) |-> l[k].quantidade],
            {k \in 1..Len(l) : l[k].produto_id = p})

Referenciado(tab, p) == \E k \in 1..Len(tab) : tab[k].produto_id = p

Estoque(prods, p) == prods[p].quantidade_estoque

QtdInvalida(linha) == linha.quantidade <= 0
ProdutoAusente(linha) == linha.produto_id \notin DOMAIN produtos
AcimaDoEstoque(linha) ==
    /\ linha.produto_id \in DOMAIN produtos
    /\ linha.quantidade > Estoque(produtos, linha.produto_id)
LinhaInvalida(linha) == QtdInvalida(linha) \/ ProdutoAusente(linha) \/ AcimaDoEstoque(linha)

SemDuplicados(l) == \A j, k \in 1..Len(l) : j # k => l[j].produto_id # l[k].produto_id

Req(c, l) == [cliente |-> c, itens |-> l]

\* C1: in every state reached by any sequence of product and order calls,
\* successful or failed, every product's quantidade_estoque is >= 0.
C1_EstoqueNaoNegativo ==
    \A p \in DOMAIN produtos : Estoque(produtos, p) >= 0

\* An order has just taken the last units of a product.
C1_Witness ==
    /\ ultimo.op \in {"criar_pedido", "atualizar_pedido"}
    /\ ultimo.status = 200
    /\ \E p \in DOMAIN produtos : Estoque(produtos, p) = 0 /\ Retido(itens, p) = MaxQtd

\* C2: for every stored order valor_total is the sum of its items'
\* valor_total_item, and every item's valor_total_item is quantidade x
\* preco_unitario -- also after a product was repriced.
C2_TotaisCoerentes ==
    /\ \A id \in DOMAIN pedidos :
         pedidos[id].valor_total =
           SomaIdx([k \in 1..Len(itens) |-> itens[k].valor_total_item],
                   {k \in 1..Len(itens) : itens[k].pedido_id = id})
    /\ \A k \in 1..Len(itens) :
         itens[k].valor_total_item = itens[k].quantidade * itens[k].preco_unitario

\* A product was repriced after an order of two lines snapshotted it.
C2_Witness ==
    /\ ultimo.op = "atualizar_produto" /\ ultimo.status = 200
    /\ \E k \in 1..Len(itens) :
         /\ itens[k].produto_id \in DOMAIN produtos
         /\ itens[k].preco_unitario # produtos[itens[k].produto_id].preco
         /\ itens[k].quantidade > 1

\* C3 as stated: every product's stock is the stock it was created with
\* minus the units held by the stored items that reference it.
C3_Original ==
    \A p \in DOMAIN produtos :
        Estoque(produtos, p) = criado_com[p] - Retido(itens, p)

\* C3 amended: every product's stock is the stock it was created with, plus
\* the net change the atualizar_produto calls have committed to it
\* (whatever they went on to answer), minus the units held by the stored
\* items that reference it.
C3_EstoqueReconciliado ==
    \A p \in DOMAIN produtos :
        Estoque(produtos, p) = criado_com[p] + ajuste[p] - Retido(itens, p)

\* A product restocked by atualizar_produto while an order holds units of
\* it, and a product whose restock was committed by a call that answered
\* 500.
C3_Witness ==
    /\ \E p \in DOMAIN produtos :
          /\ ajuste[p] # 0
          /\ Retido(itens, p) > 0
    /\ ultimo.op = "atualizar_produto"
    /\ ultimo.status = 500
    /\ ultimo.id \in DOMAIN produtos
    /\ ajuste[ultimo.id] # 0

\* C4 as stated: two criar_pedido calls that overlap leave what some serial
\* order of the two leaves -- the stock of every product has dropped by
\* exactly the units the stored items hold, and never below zero.
C4_Serializavel ==
    (/\ nops = 2
     /\ \A q \in Sessoes : sess[q].op = "criar_pedido" /\ sess[q].pc = "fim")
    => \A p \in DOMAIN produtos :
          /\ Estoque(produtos, p) = criado_com[p] - Retido(itens, p)
          /\ Retido(itens, p) <= criado_com[p]

\* C5: a criar_pedido request with an invalid line (quantity <= 0, product
\* missing, stock below the quantity) fails (422 from the request model,
\* 404 or 400 from the handler) and leaves the committed state as it was,
\* also when earlier lines were valid.
C5_CriarTudoOuNada ==
    \A c \in Clientes, l \in ListasDeItens :
        (\E k \in 1..Len(l) : LinhaInvalida(l[k]))
        => LET r == main_criar_pedido(DB, Req(c, l)) IN
           /\ r.resp.status \in {400, 404, 422}
           /\ r.db = DB

\* A criar_pedido has just failed, and a request whose first line is valid
\* and whose second line is invalid fails in this state.
C5_Witness ==
    /\ ultimo.op = "criar_pedido"
    /\ ultimo.detail \in {"Produto nao encontrado", "Estoque insuficiente"}
    /\ \E l \in ListasDeItens :
         /\ Len(l) = 2 /\ SemDuplicados(l)
         /\ ~LinhaInvalida(l[1]) /\ LinhaInvalida(l[2])
         /\ main_criar_pedido(DB, Req(<<"b">>, l)).resp.status # 200

\* A line of a new item list that fails once the order's old items were
\* added back to stock.
InvalidaAposReversao(id, linha) ==
    \/ QtdInvalida(linha)
    \/ ProdutoAusente(linha)
    \/ /\ linha.produto_id \in DOMAIN produtos
       /\ linha.quantidade >
            Estoque(produtos, linha.produto_id) + RetidoPor(itens, id, linha.produto_id)

\* C6: an atualizar_pedido that fails while validating the new list, after
\* the old quantities were added back and the old items deleted, leaves the
\* committed state as it was; so does one whose list the request model
\* refuses for a quantity <= 0.
C6_AtualizarTudoOuNada ==
    \A id \in DOMAIN pedidos, c \in Clientes, l \in ListasDeItens :
        (/\ l # <<>>
         /\ SemDuplicados(l)
         /\ \E k \in 1..Len(l) : InvalidaAposReversao(id, l[k]))
        => LET r == main_atualizar_pedido(DB, id, Req(c, l)) IN
           /\ r.resp.status \in {400, 404, 422}
           /\ r.db = DB

\* An atualizar_pedido has just failed on a line of its new list while an
\* order holds units.
C6_Witness ==
    /\ ultimo.op = "atualizar_pedido"
    /\ ultimo.detail \in {"Produto nao encontrado", "Estoque insuficiente"}
    /\ ultimo.id \in DOMAIN pedidos
    /\ \E p \in DOMAIN produtos : RetidoPor(itens, ultimo.id, p) > 0

\* C7: a successful criar_pedido lowers the stock of each product by the
\* quantity of its line; deleting that order next brings every stock back;
\* and every successful deletar_pedido adds each item's quantidade to the
\* stock of the product it references.
C7_Reversao ==
    /\ \A c \in Clientes, l \in ListasDeItens :
         LET r == main_criar_pedido(DB, Req(c, l)) IN
         r.resp.status = 200 =>
           /\ \A p \in DOMAIN produtos :
                Estoque(r.db.produtos, p) = Estoque(produtos, p) - Pedido_(l, p)
           /\ LET d == deletar_pedido(r.db, r.id) IN
              /\ d.resp.status = 200
              /\ \A p \in DOMAIN produtos :
                   Estoque(d.db.produtos, p) = Estoque(produtos, p)
    /\ \A id \in DOMAIN pedidos :
         LET d == deletar_pedido(DB, id) IN
         /\ d.resp.status = 200
         /\ \A p \in DOMAIN produtos :
              Estoque(d.db.produtos, p) = Estoque(produtos, p) + RetidoPor(itens, id, p)

\* An order was created and then deleted: the product is back at the stock
\* it was created with.
C7_Witness ==
    /\ ultimo.op = "deletar_pedido" /\ ultimo.status = 200
    /\ nops = 3
    /\ itens = <<>>
    /\ \E p \in DOMAIN produtos :
         Estoque(produtos, p) = criado_com[p] /\ criado_com[p] = MaxEstoque

\* C8: phase by phase, atualizar_pedido first raises the session's stock of
\* each product of the old items to s + a, later lowers it by the new
\* quantity b, commits s + a - b, and no phase leaves a negative stock.
C8_Passo ==
    LET s == sess[1]
        t == sess'[1]
    IN  /\ (s.op = "atualizar_pedido" /\ s.pc \in {"lido", "revertendo"}
            /\ t.pc = "revertido")
           => \A p \in DOMAIN produtos :
                RetidoPor(itens, t.pedido_id, p) > 0
                => /\ p \in DOMAIN t.prods
                   /\ Estoque(t.prods, p) =
                        Estoque(produtos, p) + RetidoPor(itens, t.pedido_id, p)
        /\ (s.op = "atualizar_pedido" /\ s.pc \in {"revertido", "removido"} /\ t.pc # "fim")
           => \A p \in DOMAIN s.prods : Estoque(t.prods, p) = Estoque(s.prods, p)
        /\ (s.op = "atualizar_pedido" /\ s.pc = "validado" /\ t.resp.status = 200)
           => \A p \in DOMAIN produtos :
                LET a == RetidoPor(itens, s.pedido_id, p)
                    b == Pedido_(s.itens_req, p)
                IN  /\ Estoque(produtos', p) = Estoque(produtos, p) + a - b
                    /\ p \in DOMAIN s.prods
                       => /\ Estoque(s.prods, p) = Estoque(produtos, p) + a
                          /\ Estoque(produtos', p) = Estoque(s.prods, p) - b
        /\ \A p \in DOMAIN t.prods : Estoque(t.prods, p) >= 0
        /\ \A p \in DOMAIN produtos' : Estoque(produtos', p) >= 0

C8_CaminhoDoEstoque == [][C8_Passo]_vars

\* An atualizar_pedido in progress has raised the stock it works on and
\* validated a new quantity that differs from the old one.
C8_Witness ==
    /\ sess[1].op = "atualizar_pedido" /\ sess[1].pc = "validado"
    /\ \E p \in DOMAIN sess[1].prods :
         /\ Estoque(sess[1].prods, p) > Estoque(produtos, p)
         /\ Pedido_(sess[1].itens_req, p) > 0
         /\ Pedido_(sess[1].itens_req, p) # RetidoPor(itens, sess[1].pedido_id, p)

\* The responses the code gives for a Validation (a quantity of 0, refused
\* by the request model), a NotFound and an Internal failure.
RespValidacao ==
    main_criar_pedido(DB, Req(<<"b">>, <<[produto_id |-> 1, quantidade |-> 0]>>)).resp
RespNaoEncontrado == deletar_pedido(DB, MaxPedidoId + 1).resp
RespInterno == ErroDeBanco(SessaoLivre).resp

\* C9 as stated: a criar_pedido request with a line above the stock fails
\* with an error kind distinct from Validation, NotFound and Internal, and
\* changes nothing.
C9_Original ==
    \A c \in Clientes, l \in ListasDeItens :
        (\E k \in 1..Len(l) : AcimaDoEstoque(l[k]))
        => LET r == main_criar_pedido(DB, Req(c, l)) IN
           /\ r.resp.status \notin {200, RespValidacao.status, RespNaoEncontrado.status,
                                    RespInterno.status}
           /\ r.db = DB

\* C9 amended: a criar_pedido request with a line above the stock fails and
\* changes nothing; when the request model accepts the body and that line
\* is the first invalid line, the failure is HTTP 400 "Estoque
\* insuficiente", a status distinct from those of Validation, NotFound and
\* Internal.
C9_EstoqueInsuficiente ==
    \A c \in Clientes, l \in ListasDeItens :
        LET r == main_criar_pedido(DB, Req(c, l)) IN
        /\ (\E k \in 1..Len(l) : AcimaDoEstoque(l[k]))
           => /\ r.resp.status \in {400, 404, 422}
              /\ r.db = DB
        /\ (/\ PedidoBase(Req(c, l)).ok
            /\ \E k \in 1..Len(l) :
                 /\ AcimaDoEstoque(l[k])
                 /\ \A j \in 1..(k - 1) : ~LinhaInvalida(l[j]))
           => /\ r.resp = Resposta(400, "Estoque insuficiente")
              /\ r.resp.status \notin {RespValidacao.status, RespNaoEncontrado.status,
                                       RespInterno.status}

\* A criar_pedido has just been rejected for insufficient stock.
C9_Witness ==
    /\ ultimo.op = "criar_pedido"
    /\ ultimo.status = 400
    /\ ultimo.detail = "Estoque insuficiente"

\* C10: deletar_produto on a product that a stored item references fails
\* (HTTP 400, "produto que esta em pedidos") and leaves the catalogue as it
\* was; a deletar_produto that succeeds removed a product no item references.
C10_ProdutoEmUso ==
    \A id \in DOMAIN produtos :
        LET r == deletar_produto(DB, id) IN
        /\ Referenciado(itens, id)
           => /\ r.resp = Resposta(400, "Nao e possivel excluir produto que esta em pedidos")
              /\ r.db = DB
        /\ r.resp.status = 200
           => /\ ~Referenciado(itens, id)
              /\ id \notin DOMAIN r.db.produtos
              /\ \A o \in DOMAIN produtos \ {id} :
                   o \in DOMAIN r.db.produtos /\ r.db.produtos[o] = produtos[o]

\* A deletar_produto has just been refused because an item references the
\* product, which is still in the catalogue.
C10_Witness ==
    /\ ultimo.op = "deletar_produto"
    /\ ultimo.detail = "Nao e possivel excluir produto que esta em pedidos"
    /\ ultimo.id \in DOMAIN produtos
    /\ Referenciado(itens, ultimo.id)

DetalheDuplicados == "itens: value_error"

\* C11: no stored order holds two items of the same product; a criar_pedido
\* request, or an atualizar_pedido request on a stored order, whose list
\* names a product twice is refused by the request model with the status of
\* the Validation failures (HTTP 422, on the field itens when the
\* quantities are valid) and changes nothing; the handler is not called, so
\* atualizar_pedido has reversed no stock and removed no item.
C11_SemProdutoRepetido ==
    /\ \A j, k \in 1..Len(itens) :
         (j # k /\ itens[j].pedido_id = itens[k].pedido_id)
         => itens[j].produto_id # itens[k].produto_id
    /\ \A c \in Clientes, l \in ListasDeItens :
         ~SemDuplicados(l)
         => /\ ~PedidoBase(Req(c, l)).ok
            /\ LET r == main_criar_pedido(DB, Req(c, l)) IN
               /\ r.resp.status = RespValidacao.status
               /\ (\A k \in 1..Len(l) : ~QtdInvalida(l[k]))
                  => r.resp = Resposta(422, DetalheDuplicados)
               /\ r.db = DB
            /\ \A id \in DOMAIN pedidos :
                 LET r == main_atualizar_pedido(DB, id, Req(c, l)) IN
                 /\ r.resp.status = RespValidacao.status
                 /\ (\A k \in 1..Len(l) : ~QtdInvalida(l[k]))
                    => r.resp = Resposta(422, DetalheDuplicados)
                 /\ r.db = DB

\* An atualizar_pedido with a repeated product has just been refused on an
\* order that holds units.
C11_Witness ==
    /\ ultimo.op = "atualizar_pedido"
    /\ ultimo.status = 422
    /\ ultimo.detail = DetalheDuplicados
    /\ ultimo.id \in DOMAIN pedidos
    /\ \E p \in DOMAIN produtos : RetidoPor(itens, ultimo.id, p) > 0

\* The rows of an itens_pedido table that belong to orders other than id.
DeOutrosPedidos(tab, id) ==
    LET Outro(e) == e.pedido_id # id IN SelectSeq(tab, Outro)

\* C12: no call changes a stored item: a product call or a failed call
\* leaves the items and the orders as they were (so a rename or a reprice
\* by atualizar_produto reaches no item and no valor_total); criar_pedido
\* only adds rows after the stored ones; atualizar_pedido and
\* deletar_pedido touch only the rows of the order they address.
C12_Passo ==
    LET op == ultimo'.op
        ok == ultimo'.status = 200
        id == ultimo'.id
    IN  /\ (op \in {"criar_produto", "atualizar_produto", "deletar_produto"} \/ ~ok)
           => itens' = itens /\ pedidos' = pedidos
        /\ (op = "criar_pedido" /\ ok)
           => /\ Len(itens') > Len(itens)
              /\ SubSeq(itens', 1, Len(itens)) = itens
              /\ \A o \in DOMAIN pedidos : o \in DOMAIN pedidos' /\ pedidos'[o] = pedidos[o]
        /\ (op \in {"atualizar_pedido", "deletar_pedido"} /\ ok)
           => /\ DeOutrosPedidos(itens', id) = DeOutrosPedidos(itens, id)
              /\ \A o \in DOMAIN pedidos \ {id} :
                   o \in DOMAIN pedidos' /\ pedidos'[o] = pedidos[o]

C12_ItensImutaveis == [][C12_Passo]_vars

\* A product was renamed and repriced by atualizar_produto while a stored
\* item keeps the name and the price it was sold with.
C12_Witness ==
    /\ ultimo.op = "atualizar_produto" /\ ultimo.status = 200
    /\ ultimo.id \in DOMAIN produtos
    /\ \E k \in 1..Len(itens) :
         /\ itens[k].produto_id = ultimo.id
         /\ itens[k].nome_produto # produtos[ultimo.id].nome
         /\ itens[k].preco_unitario # produtos[ultimo.id].preco

DetalheNomeEmUso == "Produto com este nome ja existe"

\* C13 as stated: no two products have the same normalized name, and every
\* stored name is its own normalized form; criar_produto with a name whose
\* normalized form a product already has is rejected (HTTP 400, "ja
\* existe"); atualizar_produto to the normalized name of another product
\* is rejected the same way; atualizar_produto to the product's own name,
\* in any case and spacing, is accepted.  Rejections change nothing.
C13_NomesUnicos ==
    /\ \A i, j \in DOMAIN produtos :
         i # j => normalizar(produtos[i].nome) # normalizar(produtos[j].nome)
    /\ \A i \in DOMAIN produtos : produtos[i].nome = normalizar(produtos[i].nome)
    /\ \A nome \in NomesEntrada, d \in Descricoes,
          preco \in 1..MaxPreco, est \in 0..MaxEstoque :
         LET dados == NovoProduto(nome, d, preco, est) IN
         /\ (\E i \in DOMAIN produtos : produtos[i].nome = normalizar(nome))
            => LET r == main_criar_produto(DB, dados) IN
               /\ r.resp = Resposta(400, DetalheNomeEmUso)
               /\ r.db = DB
         /\ \A id \in DOMAIN produtos :
              LET r == main_atualizar_produto(DB, id, dados) IN
              /\ (\E j \in DOMAIN produtos \ {id} : produtos[j].nome = normalizar(nome))
                 => /\ r.resp = Resposta(400, DetalheNomeEmUso)
                    /\ r.db = DB
              /\ produtos[id].nome = normalizar(nome)
                 => /\ r.resp.status = 200
                    /\ r.db.produtos[id].nome = produtos[id].nome

\* C14: when the flush or the commit of criar_pedido fails, after the
\* checks passed (and, for the commit, after the order row was flushed and
\* the stocks were lowered in the session), the call ends with HTTP 500
\* "Erro interno do servidor" and the committed products, orders and items
\* are what they were.
C14_Passo ==
    (/\ sess[1].op = "criar_pedido"
     /\ sess[1].pc \in {"validado", "flushed"}
     /\ sess'[1].pc = "fim"
     /\ sess'[1].resp.status # 200)
    => /\ sess'[1].resp = Resposta(500, "Erro interno do servidor")
       /\ ultimo' = FimDe(sess'[1])
       /\ produtos' = produtos
       /\ pedidos' = pedidos
       /\ itens' = itens

C14_FalhaDePersistencia == [][C14_Passo]_vars

\* A criar_pedido has failed at its commit: it had been given an order id,
\* and no order with that id is stored.
C14_Witness ==
    /\ sess[1].op = "criar_pedido" /\ sess[1].pc = "fim"
    /\ sess[1].resp.status = 500
    /\ sess[1].pedido_id > 0
    /\ sess[1].pedido_id \notin DOMAIN pedidos
    /\ \A p \in DOMAIN produtos : Estoque(produtos, p) = criado_com[p] - Retido(itens, p)

\* Item i of a read order is line i of the request, with the product's
\* name and price as the catalogue prods has them.
ItemConfere(item, linha, prods) ==
    /\ item.produto_id = linha.produto_id
    /\ item.quantidade = linha.quantidade
    /\ item.preco_unitario = prods[linha.produto_id].preco
    /\ item.nome_produto = prods[linha.produto_id].nome

\* C15 as stated: after a successful criar_pedido with lines (p1,q1) ..
\* (pn,qn), buscar_pedido on the returned id gives an order with exactly n
\* items, in the caller's line order, item i with produto_id pi, quantidade
\* qi and the price and name product pi had at creation time.
C15_IdaEVolta ==
    \A c \in Clientes, l \in ListasDeItens :
        LET r == main_criar_pedido(DB, Req(c, l)) IN
        r.resp.status = 200
        => \A b \in buscar_pedido(r.db, r.id) :
             /\ b.resp.status = 200
             /\ b.valor.id = r.id
             /\ Len(b.valor.itens) = Len(l)
             /\ \A i \in 1..Len(l) : ItemConfere(b.valor.itens[i], l[i], produtos)

\* The products with the highest summed quantidade over the stored items.
MaisVendidos ==
    LET ids == {itens[k].produto_id : k \in 1..Len(itens)}
    IN  {p \in ids : \A q \in ids : Retido(itens, q) <= Retido(itens, p)}

\* C16 as stated: the statistics the callers get hold the number of
\* products, the number of orders, the sum of the orders' valor_total, an
\* average that is 0 without orders and sum / count otherwise, and, when
\* items are stored, the product with the highest summed quantidade.
C16_Estatisticas ==
    LET e == estatisticas(DB).valor IN
    /\ e.total_produtos = Cardinality(DOMAIN produtos)
    /\ e.total_pedidos = Cardinality(DOMAIN pedidos)
    /\ e.valor_total_pedidos =
         SomaIdx([id \in DOMAIN pedidos |-> pedidos[id].valor_total], DOMAIN pedidos)
    /\ DOMAIN pedidos = {} => e.ticket_medio = 0
    /\ DOMAIN pedidos # {}
       => /\ e.ticket_medio.num = e.valor_total_pedidos
          /\ e.ticket_medio.den = e.total_pedidos
    /\ itens # <<>>
       => /\ "produto_mais_vendido" \in DOMAIN e
          /\ e.produto_mais_vendido.id \in MaisVendidos
          /\ e.produto_mais_vendido.quantidade_vendida =
               Retido(itens, e.produto_mais_vendido.id)

\* C17 as stated: for every threshold t and every catalogue the low-stock
\* report answers with a list that holds, once each and with their stored
\* fields, exactly the products whose quantidade_estoque is <= t (stock t
\* is in, stock t + 1 is out), and it leaves the database as it was.
C17_BaixoEstoque ==
    \A t \in Limites :
        LET r == produtos_baixo_estoque(DB, t)
            n == Len(r.valor)
        IN  /\ r.resp.status = 200
            /\ r.db = DB
            /\ {r.valor[k].id : k \in 1..n} =
                 {p \in DOMAIN produtos : Estoque(produtos, p) <= t}
            /\ \A j, k \in 1..n : j # k => r.valor[j].id # r.valor[k].id
            /\ \A k \in 1..n :
                 /\ r.valor[k].quantidade_estoque = Estoque(produtos, r.valor[k].id)
                 /\ r.valor[k].nome = produtos[r.valor[k].id].nome
                 /\ r.valor[k].preco = produtos[r.valor[k].id].preco

\* Every line of the list names a product of the catalogue.
ProdutosExistem(l) == \A k \in 1..Len(l) : l[k].produto_id \in DOMAIN produtos

\* Every line asks for no more than the product's stock plus the units the
\* order id already holds of it.
CabeAposReversao(id, l) ==
    \A k \in 1..Len(l) :
        l[k].quantidade <=
            Estoque(produtos, l[k].produto_id) + RetidoPor(itens, id, l[k].produto_id)

\* C18 as stated: atualizar_pedido on a stored order with a duplicate-free,
\* non-empty list of existing products succeeds iff every line (P, q) has
\* q <= stock of P + units the order's old item for P holds.
C18_Original ==
    \A id \in DOMAIN pedidos, c \in Clientes, l \in ListasDeItens :
        (l # <<>> /\ SemDuplicados(l) /\ ProdutosExistem(l))
        => (main_atualizar_pedido(DB, id, Req(c, l)).resp.status = 200
            <=> CabeAposReversao(id, l))

\* C18 amended: atualizar_pedido on a stored order with a duplicate-free,
\* non-empty list of existing products succeeds iff every line (P, q) has
\* q > 0 and q <= stock of P + units the order's old item for P holds; a
\* line with q <= 0 is refused with HTTP 422 whatever the stock.
C18_ReversaoAntesDeValidar ==
    \A id \in DOMAIN pedidos, c \in Clientes, l \in ListasDeItens :
        (l # <<>> /\ SemDuplicados(l) /\ ProdutosExistem(l))
        => LET r == main_atualizar_pedido(DB, id, Req(c, l)) IN
           /\ r.resp.status = 200
              <=> (CabeAposReversao(id, l) /\ \A k \in 1..Len(l) : ~QtdInvalida(l[k]))
           /\ (\E k \in 1..Len(l) : QtdInvalida(l[k])) => r.resp.status = 422

\* A stored order can be updated to a quantity above the free stock of the
\* product, because the order itself holds the difference.
C18_Witness ==
    \E id \in DOMAIN pedidos, l \in ListasDeItens :
        /\ l # <<>> /\ SemDuplicados(l) /\ ProdutosExistem(l)
        /\ \E k \in 1..Len(l) :
             /\ l[k].quantidade > Estoque(produtos, l[k].produto_id)
             /\ RetidoPor(itens, id, l[k].produto_id) > 0
        /\ main_atualizar_pedido(DB, id, Req(<<"b">>, l)).resp.status = 200

\* Stock of p plus the units of p the stored items hold, in a database.
EstoqueMaisRetido(db, p) == Estoque(db.produtos, p) + Retido(db.itens, p)

\* C19: every successful criar_pedido, atualizar_pedido and deletar_pedido
\* leaves, for every product, stock + units held by all stored items what
\* it was before the call, however many orders hold the product.
C19_Conservacao ==
    /\ \A c \in Clientes, l \in ListasDeItens :
         /\ LET r == main_criar_pedido(DB, Req(c, l)) IN
            r.resp.status = 200
            => \A p \in DOMAIN produtos :
                 /\ p \in DOMAIN r.db.produtos
                 /\ EstoqueMaisRetido(r.db, p) = EstoqueMaisRetido(DB, p)
         /\ \A id \in DOMAIN pedidos :
              LET r == main_atualizar_pedido(DB, id, Req(c, l)) IN
              r.resp.status = 200
              => \A p \in DOMAIN produtos :
                   /\ p \in DOMAIN r.db.produtos
                   /\ EstoqueMaisRetido(r.db, p) = EstoqueMaisRetido(DB, p)
    /\ \A id \in DOMAIN pedidos :
         LET r == deletar_pedido(DB, id) IN
         r.resp.status = 200
         => \A p \in DOMAIN produtos :
              /\ p \in DOMAIN r.db.produtos
              /\ EstoqueMaisRetido(r.db, p) = EstoqueMaisRetido(DB, p)

\* Every order id is stored and holds units of the same product, the last
\* call was a successful atualizar_pedido, and the product's stock is what
\* it was created with minus the units the orders hold.
C19_Witness ==
    /\ ultimo.op = "atualizar_pedido" /\ ultimo.status = 200
    /\ \E p \in DOMAIN produtos :
         /\ \A id \in PedidoIds : id \in DOMAIN pedidos /\ RetidoPor(itens, id, p) > 0
         /\ Retido(itens, p) = criado_com[p] - Estoque(produtos, p)

\* The rows of order id in an itens_pedido table, in rowid order.
LinhasDoPedido(tab, id) ==
    LET Dele(e) == e.pedido_id = id IN SelectSeq(tab, Dele)

\* C20: a successful atualizar_pedido keeps the order's id and the set of
\* stored orders, stores the normalized new customer name, replaces the
\* order's items by one item per new line, each with the product's current
\* name and price (also when the line is carried over from the old list)
\* and the total computed from them, and leaves every other order, every
\* other order's items and every product in neither list as they were; a
\* product in a list changes in its stock only.
C20_AtualizarPedido ==
    \A id \in DOMAIN pedidos, c \in Clientes, l \in ListasDeItens :
        LET r == main_atualizar_pedido(DB, id, Req(c, l))
            novas == LinhasDoPedido(r.db.itens, id)
        IN  r.resp.status = 200
            => /\ r.id = id
               /\ DOMAIN r.db.pedidos = DOMAIN pedidos
               /\ r.db.pedidos[id].cliente = normalizar(c)
               /\ Len(novas) = Len(l)
               /\ \A i \in 1..Len(l) :
                    /\ ItemConfere(novas[i], l[i], produtos)
                    /\ novas[i].valor_total_item =
                         l[i].quantidade * produtos[l[i].produto_id].preco
               /\ r.db.pedidos[id].valor_total =
                    SomaIdx([i \in 1..Len(l) |->
                               l[i].quantidade * produtos[l[i].produto_id].preco],
                            1..Len(l))
               /\ \A o \in DOMAIN pedidos \ {id} : r.db.pedidos[o] = pedidos[o]
               /\ DeOutrosPedidos(r.db.itens, id) = DeOutrosPedidos(itens, id)
               /\ DOMAIN r.db.produtos = DOMAIN produtos
               /\ \A p \in DOMAIN produtos :
                    /\ (RetidoPor(itens, id, p) = 0 /\ Pedido_(l, p) = 0)
                       => r.db.produtos[p] = produtos[p]
                    /\ [r.db.produtos[p] EXCEPT !.quantidade_estoque = 0] =
                         [produtos[p] EXCEPT !.quantidade_estoque = 0]

\* An order was updated after its product was renamed or repriced: the
\* order's item carries the product's current name and price, and the
\* stored customer name differs from the one sent.
C20_Witness ==
    /\ ultimo.op = "atualizar_pedido" /\ ultimo.status = 200
    /\ ultimo.id \in DOMAIN pedidos
    /\ pedidos[ultimo.id].cliente \notin Clientes
    /\ \E k \in 1..Len(itens) :
         /\ itens[k].pedido_id = ultimo.id
         /\ ajuste[itens[k].produto_id] # 0
         /\ itens[k].preco_unitario = produtos[itens[k].produto_id].preco
         /\ itens[k].preco_unitario = MaxPreco

\* The response the checks of one line give when the line fails, the
\* product having `disponivel' units: quantity first (a Validation
\* failure), then the product, then the stock.
ErroDaLinha(linha, disponivel) ==
    IF linha.quantidade <= 0
    THEN "Validation"
    ELSE IF linha.produto_id \notin DOMAIN produtos
    THEN "Produto nao encontrado"
    ELSE IF linha.quantidade > disponivel
    THEN "Estoque insuficiente"
    ELSE "OK"

\* The same for a response: every response with the status of the
\* Validation failures counts as Validation.
ErroDaResposta(resp) ==
    IF resp.status = RespValidacao.status THEN "Validation" ELSE resp.detail

\* Units of the line's product a new order can take / order id can take
\* once its old items are added back.
Disponivel(linha) ==
    IF linha.produto_id \in DOMAIN produtos
    THEN Estoque(produtos, linha.produto_id) ELSE 0

DisponivelPara(id, linha) ==
    IF linha.produto_id \in DOMAIN produtos
    THEN Estoque(produtos, linha.produto_id) + RetidoPor(itens, id, linha.produto_id)
    ELSE 0

\* The failure of the earliest invalid line of l is the failure reported.
PrimeiraNoCriar(c, l) ==
    \A k \in 1..Len(l) :
        (/\ ErroDaLinha(l[k], Disponivel(l[k])) # "OK"
         /\ \A j \in 1..(k - 1) : ErroDaLinha(l[j], Disponivel(l[j])) = "OK")
        => ErroDaResposta(main_criar_pedido(DB, Req(c, l)).resp) =
             ErroDaLinha(l[k], Disponivel(l[k]))

PrimeiraNoAtualizar(id, c, l) ==
    \A k \in 1..Len(l) :
        (/\ ErroDaLinha(l[k], DisponivelPara(id, l[k])) # "OK"
         /\ \A j \in 1..(k - 1) : ErroDaLinha(l[j], DisponivelPara(id, l[j])) = "OK")
        => ErroDaResposta(main_atualizar_pedido(DB, id, Req(c, l)).resp) =
             ErroDaLinha(l[k], DisponivelPara(id, l[k]))

\* C21 as stated: criar_pedido and atualizar_pedido (on a stored order)
\* check the lines of a non-empty, duplicate-free list in the caller's
\* order and stop at the first failing one: the failure reported is the one
\* of the earliest invalid line, and within a line quantity <= 0 is
\* reported before a missing product, and a missing product before
\* insufficient stock.
C21_Original ==
    \A c \in Clientes, l \in ListasDeItens :
        (l # <<>> /\ SemDuplicados(l))
        => /\ PrimeiraNoCriar(c, l)
           /\ \A id \in DOMAIN pedidos : PrimeiraNoAtualizar(id, c, l)

\* A list the request model refuses: empty, a product named twice, or a
\* quantity <= 0 on some line.
ListaRecusada(l) ==
    l = <<>> \/ ~SemDuplicados(l) \/ \E k \in 1..Len(l) : QtdInvalida(l[k])

\* C21 amended: for a list the request model accepts (non-empty, no product
\* named twice, quantities all > 0), criar_pedido and atualizar_pedido (on
\* a stored order) check the lines in the caller's order and stop at the
\* first failing one: the failure reported is the one of the earliest
\* invalid line, and within a line a missing product is reported before
\* insufficient stock; every other list (a quantity <= 0 on any line, a
\* product named twice, no line) is refused as a Validation failure,
\* whatever its lines hold.
C21_PrimeiraLinhaInvalida ==
    \A c \in Clientes, l \in ListasDeItens :
        IF ListaRecusada(l)
        THEN /\ ErroDaResposta(main_criar_pedido(DB, Req(c, l)).resp) = "Validation"
             /\ \A id \in DOMAIN pedidos :
                  ErroDaResposta(main_atualizar_pedido(DB, id, Req(c, l)).resp) =
                    "Validation"
        ELSE /\ PrimeiraNoCriar(c, l)
             /\ \A id \in DOMAIN pedidos : PrimeiraNoAtualizar(id, c, l)

\* A criar_pedido has just failed on its stock check, and in this state a
\* request whose line 1 is above the stock reports the insufficient stock
\* when its line 2 names a missing product, is refused as a Validation
\* failure when its line 2 has a quantity of 0, and a request that names a
\* missing product twice is refused as a Validation failure too.
C21_Witness ==
    /\ ultimo.op = "criar_pedido"
    /\ ultimo.detail = "Estoque insuficiente"
    /\ \E l \in ListasDeItens :
         /\ Len(l) = 2
         /\ AcimaDoEstoque(l[1]) /\ ~QtdInvalida(l[1])
         /\ ProdutoAusente(l[2]) /\ ~QtdInvalida(l[2])
         /\ main_criar_pedido(DB, Req(<<"b">>, l)).resp =
              Resposta(400, "Estoque insuficiente")
    /\ \E l \in ListasDeItens :
         /\ Len(l) = 2 /\ SemDuplicados(l)
         /\ AcimaDoEstoque(l[1]) /\ QtdInvalida(l[2])
         /\ main_criar_pedido(DB, Req(<<"b">>, l)).resp.status = 422
    /\ \E l \in ListasDeItens :
         /\ Len(l) = 2 /\ ~SemDuplicados(l)
         /\ ProdutoAusente(l[1]) /\ ~QtdInvalida(l[1]) /\ ~QtdInvalida(l[2])
         /\ main_criar_pedido(DB, Req(<<"b">>, l)).resp.status = 422

\* C22: every stored item belongs to a stored order and references a
\* stored product; a deletar_pedido on a stored order succeeds, and after
\* it the order and all of its items are gone while the other orders and
\* their items are as they were.
C22_SemOrfaos ==
    /\ \A k \in 1..Len(itens) :
         /\ itens[k].pedido_id \in DOMAIN pedidos
         /\ itens[k].produto_id \in DOMAIN produtos
    /\ \A id \in DOMAIN pedidos :
         LET r == deletar_pedido(DB, id) IN
         /\ r.resp.status = 200
         /\ id \notin DOMAIN r.db.pedidos
         /\ \A k \in 1..Len(r.db.itens) : r.db.itens[k].pedido_id # id
         /\ r.db.itens = DeOutrosPedidos(itens, id)
         /\ \A o \in DOMAIN pedidos \ {id} :
              o \in DOMAIN r.db.pedidos /\ r.db.pedidos[o] = pedidos[o]

\* An order was deleted while another order, which keeps its items, is
\* stored.
C22_Witness ==
    /\ ultimo.op = "deletar_pedido" /\ ultimo.status = 200
    /\ ultimo.id \notin DOMAIN pedidos
    /\ \E o \in DOMAIN pedidos : \E p \in DOMAIN produtos : RetidoPor(itens, o, p) > 0

\* Ids that can be asked for: those the calls draw from and one beyond.
IdsDePedido == 1..(MaxPedidoId + 1)
IdsDeProduto == 1..(MaxProdutoId + 1)

\* C23 as stated: atualizar_pedido and deletar_pedido on an order id that
\* is not stored answer 404 "Pedido nao encontrado", atualizar_produto and
\* deletar_produto on a product id that is not stored answer 404 "Produto
\* nao encontrado", and all four change nothing -- whatever else the
\* request holds: an empty list, a repeated product, an invalid line, a
\* price <= 0 or a stock < 0 still give the 404.
C23_Original ==
    /\ \A id \in IdsDePedido \ DOMAIN pedidos :
         /\ \A c \in Clientes, l \in ListasDeItens :
              LET r == main_atualizar_pedido(DB, id, Req(c, l)) IN
              /\ r.resp = Resposta(404, "Pedido nao encontrado")
              /\ r.db = DB
         /\ LET r == deletar_pedido(DB, id) IN
            /\ r.resp = Resposta(404, "Pedido nao encontrado")
            /\ r.db = DB
    /\ \A id \in IdsDeProduto \ DOMAIN produtos :
         /\ \A nome \in NomesEntrada, d \in Descricoes, preco \in Precos, est \in Estoques :
              LET r == main_atualizar_produto(DB, id, NovoProduto(nome, d, preco, est)) IN
              /\ r.resp = Resposta(404, "Produto nao encontrado")
              /\ r.db = DB
         /\ LET r == deletar_produto(DB, id) IN
            /\ r.resp = Resposta(404, "Produto nao encontrado")
            /\ r.db = DB

\* C23 amended: atualizar_pedido and deletar_pedido on an order id that is
\* not stored answer 404 "Pedido nao encontrado", atualizar_produto and
\* deletar_produto on a product id that is not stored answer 404 "Produto
\* nao encontrado", whenever the request model accepts the body -- for
\* atualizar_pedido also when a line names a missing product or asks for
\* more than the stock; a body the request model refuses (an empty list, a
\* repeated product, a quantity <= 0, a price <= 0, a stock < 0) is
\* answered 422 whether the id is stored or not.  None of them changes
\* anything.
C23_NaoEncontrado ==
    /\ \A id \in IdsDePedido \ DOMAIN pedidos :
         /\ \A c \in Clientes, l \in ListasDeItens :
              LET r == main_atualizar_pedido(DB, id, Req(c, l)) IN
              /\ r.resp = IF PedidoBase(Req(c, l)).ok
                          THEN Resposta(404, "Pedido nao encontrado")
                          ELSE Recusa(PedidoBase(Req(c, l)))
              /\ r.resp.status \in {404, 422}
              /\ r.db = DB
         /\ LET r == deletar_pedido(DB, id) IN
            /\ r.resp = Resposta(404, "Pedido nao encontrado")
            /\ r.db = DB
    /\ \A id \in IdsDeProduto \ DOMAIN produtos :
         /\ \A nome \in NomesEntrada, d \in Descricoes, preco \in Precos, est \in Estoques :
              LET dados == NovoProduto(nome, d, preco, est)
                  r == main_atualizar_produto(DB, id, dados)
              IN  /\ r.resp = IF preco > 0 /\ est >= 0
                              THEN Resposta(404, "Produto nao encontrado")
                              ELSE Recusa(ProdutoBase(dados))
                  /\ r.resp.status \in {404, 422}
                  /\ r.db = DB
         /\ LET r == deletar_produto(DB, id) IN
            /\ r.resp = Resposta(404, "Produto nao encontrado")
            /\ r.db = DB

\* An atualizar_pedido on a missing order has just answered 404 while
\* another order is stored; a request for the same id with a line that
\* names a missing product gets the order's 404, and one with an empty
\* list is refused.
C23_Witness ==
    /\ ultimo.op = "atualizar_pedido" /\ ultimo.status = 404
    /\ ultimo.id \notin DOMAIN pedidos
    /\ DOMAIN pedidos # {}
    /\ \E l \in ListasDeItens :
         /\ PedidoBase(Req(<<"b">>, l)).ok
         /\ ProdutoAusente(l[1])
         /\ main_atualizar_pedido(DB, ultimo.id, Req(<<"b">>, l)).resp =
              Resposta(404, "Pedido nao encontrado")
    /\ main_atualizar_pedido(DB, ultimo.id, Req(<<"b">>, <<>>)).resp.status = 422

\* C26: with deletar_produto and criar_pedido interleaved statement by
\* statement in two sessions, every committed state keeps each stored
\* item's product in the catalogue.
C26_ItemComProduto ==
    \A k \in 1..Len(itens) : itens[k].produto_id \in DOMAIN produtos

\* C25: when two deletar_pedido calls for the same order have run in the
\* two sessions, both having read the order before either committed, at
\* most one of them answers 200, and the stock of every product is what
\* was registered plus the adjustments minus what the stored items hold,
\* so that the order's quantities went back only once.
C25_ExclusaoUnica ==
    \A a \in Sessoes, b \in Sessoes :
      (/\ a # b
       /\ sess[a].op = "deletar_pedido" /\ Livre(a)
       /\ sess[b].op = "deletar_pedido" /\ Livre(b)
       /\ sess[a].pedido_id = sess[b].pedido_id
       /\ sess[a].pedido_id \notin DOMAIN pedidos)
      => /\ ~(sess[a].resp.status = 200 /\ sess[b].resp.status = 200)
         /\ \A p \in DOMAIN produtos :
              Estoque(produtos, p) = criado_com[p] + ajuste[p] - Retido(itens, p)

\* C27: an atualizar_produto on a stored product that succeeds leaves the
\* product's quantidade_estoque at exactly the supplied value, whatever
\* quantity the stored items hold of it, and leaves every other product,
\* the orders and the items as they were; every supplied stock >= 0 with a
\* price > 0 is written unless the name is taken, and the call that wrote
\* it succeeds unless the name it stored is empty (it then answers 500);
\* with a price <= 0 or a stock < 0 the request model refuses it with the
\* status of the Validation failures (HTTP 422), naming the price or the
\* stock, and the committed state is unchanged.
C27_EstoqueSobrescrito ==
    \A id \in DOMAIN produtos, nome \in NomesEntrada, d \in Descricoes,
       preco \in Precos, est \in Estoques :
      LET r == main_atualizar_produto(DB, id, NovoProduto(nome, d, preco, est)) IN
      /\ r.resp.status = 200 =>
           /\ est >= 0 /\ preco > 0
           /\ DOMAIN r.db.produtos = DOMAIN produtos
           /\ Estoque(r.db.produtos, id) = est
           /\ \A o \in DOMAIN produtos \ {id} : r.db.produtos[o] = produtos[o]
           /\ r.db.pedidos = pedidos
           /\ r.db.itens = itens
      /\ (preco > 0 /\ est >= 0) =>
           \/ r.resp = Resposta(400, DetalheNomeEmUso) /\ r.db = DB
           \/ /\ Estoque(r.db.produtos, id) = est
              /\ r.resp.status = IF title(strip(nome)) = <<>> THEN 500 ELSE 200
      /\ (preco <= 0 \/ est < 0) =>
           /\ r.resp.status = RespValidacao.status
           /\ r.resp.detail \in
                {"preco: greater_than", "quantidade_estoque: greater_than_equal",
                 "preco: greater_than; quantidade_estoque: greater_than_equal"}
           /\ r.db = DB

\* A product of which a stored order holds units was given, by a successful
\* atualizar_produto, a stock other than the one it had.
C27_Witness ==
    /\ ultimo.op = "atualizar_produto" /\ ultimo.status = 200
    /\ ultimo.id \in DOMAIN produtos
    /\ Retido(itens, ultimo.id) > 0
    /\ ajuste[ultimo.id] # 0
    /\ Estoque(produtos, ultimo.id) = criado_com[ultimo.id] + ajuste[ultimo.id]
                                        - Retido(itens, ultimo.id)

\* Session p's handler has returned.
Retornou(p) == sess[p].pc = "fim" /\ sess[p].op # "nenhuma"

\* Every handler that has started returns.
C24_Termina == \A p \in Sessoes : (sess[p].pc # "fim") ~> (sess[p].pc = "fim")

\* A handler that has returned holds no write lock.
C24_SemTransacaoAberta == \A p \in Sessoes : sess[p].pc = "fim" => trava # p

\* C24: every handler that has started returns, and it returns in one of
\* two ways: its commit was done and it answers 200, or no commit was done
\* and it answers an error; once returned it holds no write lock.
C24_TerminaInteiro ==
    /\ C24_Termina
    /\ [](\A p \in Sessoes :
            Retornou(p) => (sess[p].confirmou <=> sess[p].resp.status = 200))
    /\ []C24_SemTransacaoAberta

====
